---- MODULE Spec2Model ----
(***************************************************************************)
(* Model of the AutoGenAgent web-page summarizer: the chunker of           *)
(* ContentProcessorAgent, the summary store of SummaryStorage, the page    *)
(* cache of WebFetcherAgent and the pipeline of                            *)
(* SummarizationAgentTeam.start_summarization.                             *)
(*                                                                         *)
(* A Python str is a sequence of one-character strings.  A token is a      *)
(* sequence of bytes; an ordinary character is one byte, the wide          *)
(* character "W" is the two bytes "w1" "w2".                               *)
(***************************************************************************)
EXTENDS Integers, Sequences, FiniteSets, TLC

VARIABLES
    CHUNK_SIZE,     \* config.CHUNK_SIZE, read from the environment
    content,        \* chunker run: the argument of the call
    chunks,         \* chunker run: the list returned
    hard,           \* chunker run (ghost): hard[i] iff chunks[i] is a hard-split window
    op,             \* chunker run: which entry point produced chunks
    index,          \* SummaryStorage: summary_index.json, url -> metadata
    files,          \* SummaryStorage: the <id>.txt files, id -> content
    clock,          \* time.time(), as the number of saves so far
    nextId,         \* number of ids _url_to_id has generated, plus one
    pages,          \* WebFetcherAgent: the page files, url -> fetched text
    pc,             \* start_summarization: the stage about to run
    url,            \* start_summarization: its argument
    webpage_content,
    content_chunks,
    chunk_summaries,
    final_summary,
    result,         \* the value start_summarization returned
    trace,          \* ghost: the stages this run has entered, in order
    calls,          \* ghost: the summarizer calls of this run, in order
    netFetches,     \* ghost: calls of WebpageContentFetcher.fetch in this run
    integ,          \* ghost: "none", or how the integrator call of this run ended
    integratorCalls, \* ghost: calls of integrate_summaries in this run
    saveCalls,      \* ghost: calls of save_summary in this run
    saveRaised,     \* ghost: save_summary raised in this run
    cacheHit,       \* ghost: this run returned the cached record
    atStart,        \* ghost: index and files when this run started
    prevRun,        \* ghost: url -> what the last run returned, while the record is untouched
    deletes,        \* number of delete_summary calls so far
    saves,          \* number of direct save_summary calls so far
    ret,            \* store call: the last call of the store and what it returned
    before,         \* store call (ghost): index and files when that call started
    procs,          \* concurrent saves: each process's position in save_summary and its locals
    DEEPSEEK_API_KEY, \* config: os.getenv('DEEPSEEK_API_KEY'), None when unset
    cli,            \* the summarize command: where the process is, its exit status, what it printed
    gen,            \* DeepSeekModelClient.generate: max_retries, the loop's position, what it handed back
    fet,            \* WebpageContentFetcher.fetch under fetch_webpage: the loop's position, what came back
    est,            \* estimate_tokens: its argument, whether tiktoken works, what it returned
    norm,           \* response normalization: the response, and the text each call site made of it
    agent           \* generate_summary / integrate_summaries: the call, how its chat ended, how it ended

chunkVars == <<content, chunks, hard, op>>
storeVars == <<index, files, clock, nextId>>
runVars == <<pc, url, webpage_content, content_chunks, chunk_summaries, final_summary, result>>
ghostVars == <<trace, calls, netFetches, integ, integratorCalls, saveCalls, saveRaised, cacheHit, atStart>>
teamVars == <<storeVars, pages, runVars, ghostVars, prevRun, deletes, saves>>
callVars == <<ret, before, procs>>
cliVars == <<DEEPSEEK_API_KEY, cli>>
toolVars == <<gen, fet, est, norm, agent>>
notGen == <<cliVars, fet, est, norm, agent>>
notFet == <<cliVars, gen, est, norm, agent>>
notEst == <<cliVars, gen, fet, norm, agent>>
notNorm == <<cliVars, gen, fet, est, agent>>
notAgent == <<cliVars, gen, fet, est, norm>>
auxVars == <<cliVars, toolVars>>

\* ---------------------------------------------------------------- bounds
\* longest text handed to the chunker
MaxLen == 6
\* largest token budget tried
MaxBudget == 2
\* delete_summary calls in one behaviour
MaxDeletes == 1
\* direct save_summary calls in one behaviour
MaxSaves == 1
\* save_summary calls in one behaviour of the store alone
MaxStoreSaves == 3
\* save_summary calls in one behaviour of the concurrent processes
MaxConcSaves == 3
\* runs of the summarize command in one behaviour
MaxCliRuns == 2
\* calls of the summarizer and integrator agents in one behaviour
MaxAgentCalls == 5
\* largest max_retries a client or a fetcher is constructed with
MaxRetries == 3
\* calls of generate in one behaviour
MaxGenerateCalls == 2
\* calls of fetch_webpage in one behaviour of the fetcher alone
MaxFetchCalls == 2
\* responses normalized in one behaviour
MaxResponses == 2
\* longest page text handed to process_content
MaxRawLen == 5
\* longest text handed to estimate_tokens
MaxEstimateLen == 5
\* calls of estimate_tokens on the text in one behaviour
MaxEstimateCalls == 2

\* ------------------------------------------------------------ characters
NL == "\n"
CR == "\r"
Wide == "W"
Replacement == "?"
Letters == {"a"}
Terminators == {".", "!", "?"}
Alphabet == {"a", ".", " ", NL, Wide}

\* \s of the regular expressions, and the characters str.strip() removes
IsSpace(c) == c \in {" ", NL, CR}

\* bool(p.strip()): some character of p is not whitespace
StripNonEmpty(p) == \E i \in 1..Len(p) : ~IsSpace(p[i])

RECURSIVE Flatten(_)
Flatten(ss) == IF ss = <<>> THEN <<>> ELSE Head(ss) \o Flatten(Tail(ss))

\* "\n\n".join(parts)
RECURSIVE JoinNN(_)
JoinNN(parts) ==
    IF parts = <<>> THEN <<>>
    ELSE IF Len(parts) = 1 THEN parts[1]
    ELSE parts[1] \o <<NL, NL>> \o JoinNN(Tail(parts))

\* ------------------------------------------------------------- tokenizer
\* tokenizer.encode(s): greedy merges of a byte-pair vocabulary: a blank
\* line is one token, a space joins the letter after it, a wide character
\* is split into its two bytes, anything else is a token of its own.
RECURSIVE Encode(_)
Encode(s) ==
    IF s = <<>> THEN <<>>
    ELSE IF Len(s) >= 2 /\ s[1] = NL /\ s[2] = NL
        THEN << <<NL, NL>> >> \o Encode(SubSeq(s, 3, Len(s)))
    ELSE IF Len(s) >= 2 /\ s[1] = " " /\ s[2] \in Letters
        THEN << <<" ", s[2]>> >> \o Encode(SubSeq(s, 3, Len(s)))
    ELSE IF s[1] = Wide
        THEN << <<"w1">>, <<"w2">> >> \o Encode(Tail(s))
    ELSE << <<s[1]>> >> \o Encode(Tail(s))

\* bytes.decode("utf-8", errors="replace")
RECURSIVE FromBytes(_)
FromBytes(b) ==
    IF b = <<>> THEN <<>>
    ELSE IF Len(b) >= 2 /\ b[1] = "w1" /\ b[2] = "w2"
        THEN <<Wide>> \o FromBytes(SubSeq(b, 3, Len(b)))
    ELSE IF b[1] \in {"w1", "w2"}
        THEN <<Replacement>> \o FromBytes(Tail(b))
    ELSE <<b[1]>> \o FromBytes(Tail(b))

\* tokenizer.decode(tokens)
Decode(tokens) == FromBytes(Flatten(tokens))

\* len(tokenizer.encode(s))
TokenLen(s) == Len(Encode(s))

\* --------------------------------------------------------------- chunker
\* content.split("\n\n")
RECURSIVE SplitBlank(_, _)
SplitBlank(s, cur) ==
    IF s = <<>> THEN <<cur>>
    ELSE IF Len(s) >= 2 /\ s[1] = NL /\ s[2] = NL
        THEN <<cur>> \o SplitBlank(SubSeq(s, 3, Len(s)), <<>>)
    ELSE SplitBlank(Tail(s), Append(cur, s[1]))

\* [p for p in content.split("\n\n") if p.strip()]
Paragraphs(s) == SelectSeq(SplitBlank(s, <<>>), StripNonEmpty)

\* the whitespace run of s that starts at i ends before SpaceEnd(s, i)
RECURSIVE SpaceEnd(_, _)
SpaceEnd(s, i) == IF i <= Len(s) /\ IsSpace(s[i]) THEN SpaceEnd(s, i + 1) ELSE i

\* re.split(r'(?<=[.!?...])\s+', para), scanning from position i
RECURSIVE SplitSent(_, _, _)
SplitSent(s, i, cur) ==
    IF i > Len(s) THEN <<cur>>
    ELSE IF IsSpace(s[i]) /\ i > 1 /\ s[i - 1] \in Terminators
        THEN <<cur>> \o SplitSent(s, SpaceEnd(s, i), <<>>)
    ELSE SplitSent(s, i + 1, Append(cur, s[i]))

Sentences(para) == SplitSent(para, 1, <<>>)

\* the windows of range(0, len(sent_tokens) - CHUNK_SIZE + 1, CHUNK_SIZE): a
\* last window shorter than CHUNK_SIZE is left out
RECURSIVE Windows_NoRemainder(_, _)
Windows_NoRemainder(tokens, size) ==
    IF Len(tokens) < size THEN <<>>
    ELSE <<Decode(SubSeq(tokens, 1, size))>>
         \o Windows_NoRemainder(SubSeq(tokens, size + 1, Len(tokens)), size)

\* for i in range(0, len(sent_tokens), CHUNK_SIZE): decode(sent_tokens[i:i+CHUNK_SIZE])
RECURSIVE Windows(_, _)
Windows(tokens, size) ==
    IF tokens = <<>> THEN <<>>
    ELSE IF Len(tokens) <= size THEN <<Decode(tokens)>>
    ELSE <<Decode(SubSeq(tokens, 1, size))>>
         \o Windows(SubSeq(tokens, size + 1, Len(tokens)), size)

\* the loop variables of _split_into_chunks, with the ghost list hard
EmptyAcc == [chunks |-> <<>>, hard |-> <<>>, current_chunk |-> <<>>, current_length |-> 0]

\* chunks.append("\n\n".join(current_chunk)); current_chunk = [piece]
FlushAndStart(acc, piece, n) ==
    [chunks |-> Append(acc.chunks, JoinNN(acc.current_chunk)),
     hard |-> Append(acc.hard, FALSE),
     current_chunk |-> <<piece>>,
     current_length |-> n]

\* current_chunk.append(piece); current_length += n
Accumulate(acc, piece, n) ==
    [acc EXCEPT !.current_chunk = Append(@, piece), !.current_length = @ + n]

\* the windows of an over-budget sentence go straight to chunks
HardSplit(acc, sentence) ==
    LET w == Windows(Encode(sentence), CHUNK_SIZE)
    IN [acc EXCEPT !.chunks = @ \o w,
                   !.hard = @ \o [i \in 1..Len(w) |-> TRUE]]

\* one iteration of the sentence loop
SentenceStep(acc, sentence) ==
    LET sent_length == TokenLen(sentence)
    IN IF sent_length > CHUNK_SIZE THEN HardSplit(acc, sentence)
       ELSE IF acc.current_length + sent_length > CHUNK_SIZE
           THEN FlushAndStart(acc, sentence, sent_length)
       ELSE Accumulate(acc, sentence, sent_length)

RECURSIVE SentenceLoop(_, _)
SentenceLoop(acc, sentences) ==
    IF sentences = <<>> THEN acc
    ELSE SentenceLoop(SentenceStep(acc, Head(sentences)), Tail(sentences))

\* one iteration of the paragraph loop
ParagraphStep(acc, para) ==
    LET para_length == TokenLen(para)
    IN IF para_length > CHUNK_SIZE THEN SentenceLoop(acc, Sentences(para))
       ELSE IF acc.current_length + para_length > CHUNK_SIZE
           THEN FlushAndStart(acc, para, para_length)
       ELSE Accumulate(acc, para, para_length)

RECURSIVE ParagraphLoop(_, _)
ParagraphLoop(acc, paragraphs) ==
    IF paragraphs = <<>> THEN acc
    ELSE ParagraphLoop(ParagraphStep(acc, Head(paragraphs)), Tail(paragraphs))

\* if current_chunk: chunks.append("\n\n".join(current_chunk))
FinalFlush(acc) ==
    IF acc.current_chunk # <<>>
        THEN [acc EXCEPT !.chunks = Append(@, JoinNN(acc.current_chunk)),
                         !.hard = Append(@, FALSE)]
    ELSE acc

\* _split_into_chunks whose passthrough test is len(tokens) < CHUNK_SIZE
SplitAcc_StrictBound(s) ==
    IF TokenLen(s) < CHUNK_SIZE
        THEN [EmptyAcc EXCEPT !.chunks = <<s>>, !.hard = <<FALSE>>]
    ELSE FinalFlush(ParagraphLoop(EmptyAcc, Paragraphs(s)))

\* ContentProcessorAgent._split_into_chunks, as the record (chunks, hard)
SplitAcc(s) ==
    IF TokenLen(s) <= CHUNK_SIZE
        THEN [EmptyAcc EXCEPT !.chunks = <<s>>, !.hard = <<FALSE>>]
    ELSE FinalFlush(ParagraphLoop(EmptyAcc, Paragraphs(s)))

_split_into_chunks(s) == SplitAcc(s).chunks

\* ------------------------------------------------------ _clean_content
\* the characters step 2 of _clean_content deletes
Allowed(c) == c # "#"

\* number of newlines in the whitespace run of s that starts at i
RECURSIVE NewlinesInRun(_, _)
NewlinesInRun(s, i) ==
    IF i <= Len(s) /\ IsSpace(s[i])
        THEN (IF s[i] = NL THEN 1 ELSE 0) + NewlinesInRun(s, i + 1)
    ELSE 0

\* position of the last newline of the whitespace run of s that starts at i
RECURSIVE LastNewline(_, _, _)
LastNewline(s, i, last) ==
    IF i <= Len(s) /\ IsSpace(s[i])
        THEN LastNewline(s, i + 1, IF s[i] = NL THEN i ELSE last)
    ELSE last

\* re.sub(r'\n\s*\n\s*\n+', '\n\n', s), scanning from position i
RECURSIVE CollapseBlankLines(_, _)
CollapseBlankLines(s, i) ==
    IF i > Len(s) THEN <<>>
    ELSE IF s[i] = NL /\ NewlinesInRun(s, i) >= 3
        THEN <<NL, NL>> \o CollapseBlankLines(s, LastNewline(s, i, i) + 1)
    ELSE <<s[i]>> \o CollapseBlankLines(s, i + 1)

\* re.sub(r'\s+', ' ', s), scanning from position i
RECURSIVE CollapseSpace(_, _)
CollapseSpace(s, i) ==
    IF i > Len(s) THEN <<>>
    ELSE IF IsSpace(s[i]) THEN <<" ">> \o CollapseSpace(s, SpaceEnd(s, i))
    ELSE <<s[i]>> \o CollapseSpace(s, i + 1)

\* s.strip()
RECURSIVE Strip(_)
Strip(s) ==
    IF s = <<>> THEN <<>>
    ELSE IF IsSpace(s[1]) THEN Strip(Tail(s))
    ELSE IF IsSpace(s[Len(s)]) THEN Strip(SubSeq(s, 1, Len(s) - 1))
    ELSE s

\* _clean_content without its step 3, the re.sub of whitespace runs
_clean_content_KeepsWhitespace(s) ==
    Strip(SelectSeq(CollapseBlankLines(s, 1), Allowed))

_clean_content(s) ==
    Strip(CollapseSpace(SelectSeq(CollapseBlankLines(s, 1), Allowed), 1))

\* ContentProcessorAgent.process_content
process_content(s) == _split_into_chunks(_clean_content(s))

\* ------------------------------------------------------- Python values
None == <<>>
Some(x) == <<x>>

\* d[k] = v on a dict
Put(d, k, v) == [x \in DOMAIN d \cup {k} |-> IF x = k THEN v ELSE d[x]]
\* del d[k]
Del(d, k) == [x \in DOMAIN d \ {k} |-> d[x]]
EmptyDict == [x \in {} |-> None]

\* ------------------------------------------------------------ text files
\* open(path, 'w', encoding='utf-8').write(s) where os.linesep is "\n":
\* the text of the file is s
WriteText(s) == s

\* a lone surrogate such as "\ud800": a character of a str that the utf-8
\* codec cannot encode, so that f.write raises UnicodeEncodeError
Surrogate == "S"
Encodable(s) == \A i \in 1..Len(s) : s[i] # Surrogate

\* open(path, 'r', encoding='utf-8').read(): newline=None reads "\r\n" and
\* "\r" as "\n"
RECURSIVE ReadText(_)
ReadText(s) ==
    IF s = <<>> THEN <<>>
    ELSE IF Len(s) >= 2 /\ s[1] = CR /\ s[2] = NL
        THEN <<NL>> \o ReadText(SubSeq(s, 3, Len(s)))
    ELSE IF s[1] = CR THEN <<NL>> \o ReadText(Tail(s))
    ELSE <<s[1]>> \o ReadText(Tail(s))

\* ------------------------------------------------------ SummaryStorage
URLs == {"u1", "u2"}

\* SummaryStorage._url_to_id: an id no earlier call has returned
_url_to_id(n) == "id" \o ToString(n)

\* SummaryStorage.get_summary_by_url on the store (idx, fs)
LookupByUrl(idx, fs, u) ==
    IF u \notin DOMAIN idx THEN None
    ELSE LET summary_id == idx[u].id
         IN IF summary_id \notin DOMAIN fs THEN None
            ELSE Some([id |-> summary_id, url |-> u,
                       timestamp_unix |-> idx[u].timestamp_unix,
                       content |-> ReadText(fs[summary_id])])

get_summary_by_url(u) == LookupByUrl(index, files, u)

\* the index entry save_summary writes for u
IndexEntry(summary_id, u, now) == [id |-> summary_id, url |-> u, timestamp_unix |-> now]

\* save_summary without the write of the content file
save_summary_NoFile(u, c) ==
    LET existing == u \in DOMAIN index
        summary_id == IF existing THEN index[u].id ELSE _url_to_id(nextId)
    IN [index |-> Put(index, u, IndexEntry(summary_id, u, clock + 1)),
        files |-> files,
        clock |-> clock + 1,
        nextId |-> IF existing THEN nextId ELSE nextId + 1,
        value |-> summary_id,
        raised |-> FALSE]

\* SummaryStorage.save_summary(u, c): the store after the call
save_summary(u, c) ==
    LET existing == u \in DOMAIN index
        summary_id == IF existing THEN index[u].id ELSE _url_to_id(nextId)
    IN IF Encodable(c)
         THEN [index |-> Put(index, u, IndexEntry(summary_id, u, clock + 1)),
               files |-> Put(files, summary_id, WriteText(c)),
               clock |-> clock + 1,
               nextId |-> IF existing THEN nextId ELSE nextId + 1,
               value |-> summary_id,
               raised |-> FALSE]
         \* open(summary_path, 'w') has made the file, or emptied it, when
         \* f.write(content) raises; the index is not written
         ELSE [index |-> index,
               files |-> Put(files, summary_id, <<>>),
               clock |-> clock,
               nextId |-> IF existing THEN nextId ELSE nextId + 1,
               value |-> summary_id,
               raised |-> TRUE]

\* for url, metadata in index.items(): if metadata['id'] == x: target_url = url
\* and then `if not target_url`: the url found, or None when there is none
\* or when it is the empty string
TargetUrl(x) ==
    LET found == {u \in DOMAIN index : index[u].id = x}
    IN IF found = {} THEN None
       ELSE LET target_url == CHOOSE u \in found : TRUE
            IN IF target_url = "" THEN None ELSE Some(target_url)

\* the url delete_summary(x) settles on, or None: x itself when it is a
\* stored url, else the url whose record has the id x
DeleteTarget(x) ==
    IF x \in DOMAIN index THEN Some(x)
    ELSE TargetUrl(x)

\* SummaryStorage.delete_summary(x): the store after the call, and the
\* value returned
delete_summary(x) ==
    LET t == DeleteTarget(x)
    IN IF t = None THEN [index |-> index, files |-> files, value |-> FALSE]
       ELSE [index |-> Del(index, t[1]), files |-> Del(files, index[t[1]].id),
             value |-> TRUE]

\* SummaryStorage.get_summary_by_id(x)
get_summary_by_id(x) ==
    LET t == TargetUrl(x)
    IN IF t = None THEN None ELSE get_summary_by_url(t[1])

\* summaries.sort(key=lambda x: x['timestamp_unix'], reverse=True) on the
\* records of the urls us
RECURSIVE SortedNewestFirst(_)
SortedNewestFirst(us) ==
    IF us = {} THEN <<>>
    ELSE LET newest == CHOOSE u \in us :
                          \A v \in us : index[v].timestamp_unix <= index[u].timestamp_unix
         IN <<index[newest]>> \o SortedNewestFirst(us \ {newest})

\* seq[:limit] for limit >= 0
Slice(seq, limit) == SubSeq(seq, 1, IF limit < Len(seq) THEN limit ELSE Len(seq))

\* list_summaries sorting with reverse=False: oldest first
list_summaries_OldestFirst(limit) ==
    LET newest == SortedNewestFirst(DOMAIN index)
    IN Slice([i \in 1..Len(newest) |-> newest[Len(newest) + 1 - i]], limit)

\* SummaryStorage.list_summaries(limit) with the default sort_by and reverse
list_summaries(limit) == Slice(SortedNewestFirst(DOMAIN index), limit)

\* ------------------------------------------------------- LLM responses
\* what an agent call hands back: a str, or an object seen through its
\* attribute content, its attribute message.content, its key 'content'
\* and str(obj)
Resp(s, c, m, k, r) == [str |-> s, content |-> c, msg |-> m, key |-> k, repr |-> r]

\* the isinstance/hasattr chain of start_summarization
ToText(r) ==
    IF r.str # None THEN r.str[1]
    ELSE IF r.content # None THEN r.content[1]
    ELSE IF r.msg # None THEN r.msg[1]
    ELSE IF r.key # None THEN r.key[1]
    ELSE r.repr

SummarizerResponses ==
    { Resp(Some(<<"x">>), None, None, None, <<"x">>),
      Resp(None, Some(<<"y", CR>>), Some(<<"m">>), None, <<"o">>) }

IntegratorResponses ==
    { Resp(None, None, None, Some(<<"k">>), <<"o">>) }

\* how a call of a collaborator ends: it returns value, or it raises
Returned(v) == [raised |-> FALSE, value |-> v]
Raised(v) == [raised |-> TRUE, value |-> v]
NoResp == Resp(None, None, None, None, <<>>)
LLMOutcomes(responses) == {Raised(NoResp)} \cup {Returned(r) : r \in responses}
FetchOutcomes(texts) == {Raised(<<>>)} \cup {Returned(t) : t \in texts}

\* f"[块 {i+1} 处理错误]"
Placeholder(k) == <<"[", ToString(k), "]">>

\* the placeholder numbered from 0, as f"[... {i} ...]" would
SummaryOf_ZeroBased(k, outcome) ==
    IF outcome.raised THEN Placeholder(k - 1) ELSE ToText(outcome.value)

\* the element the loop appends for chunk number k (1-based)
SummaryOf(k, outcome) ==
    IF outcome.raised THEN Placeholder(k) ELSE ToText(outcome.value)

\* the fallback joining all summaries but the last
IntegratedSummary_DropsLast(summaries, outcome) ==
    IF outcome.raised THEN JoinNN(SubSeq(summaries, 1, Len(summaries) - 1))
    ELSE ToText(outcome.value)

\* final_summary after the else branch of step 4
IntegratedSummary(summaries, outcome) ==
    IF outcome.raised THEN JoinNN(summaries) ELSE ToText(outcome.value)

\* "webpage_content is None" in place of "not webpage_content"
Truthy_NotNone(c) == c # None

\* bool(webpage_content)
Truthy(c) == c # None /\ c[1] # <<>>

\* a loop that leaves after its first iteration
AfterSummary_Break(k, n) == "INTEGRATE"

\* a loop that never hands over to step 4
AfterSummary_Again(k, n) == "SUMMARIZE_EACH"

\* the stage after the loop has handled k of n chunks
AfterSummary(k, n) == IF k >= n THEN "INTEGRATE" ELSE "SUMMARIZE_EACH"

\* the pages the network may serve
PageTexts == { <<>>, <<"a">>, <<"a", "#", NL, "a">> }

\* ----------------------------------------------- start_summarization
IdleRun ==
    /\ pc = "idle"
    /\ url = "u1"
    /\ webpage_content = None
    /\ content_chunks = <<>>
    /\ chunk_summaries = <<>>
    /\ final_summary = None
    /\ result = None
    /\ trace = <<>>
    /\ calls = <<>>
    /\ netFetches = 0
    /\ integ = "none"
    /\ integratorCalls = 0
    /\ saveCalls = 0
    /\ saveRaised = FALSE
    /\ cacheHit = FALSE
    /\ atStart = [index |-> EmptyDict, files |-> EmptyDict]

\* the processes that may call save_summary at the same time
Procs == {"p1", "p2"}

NoCall ==
    /\ ret = [op |-> "none", arg |-> "", value |-> FALSE]
    /\ before = [index |-> EmptyDict, files |-> EmptyDict]
    /\ procs = [p \in Procs |-> [pc |-> "idle", url |-> "", content |-> <<>>,
                                 index |-> EmptyDict, summary_id |-> ""]]

\* no command has been run
NoCli == cli = [pc |-> "shell", runs |-> 0, status |-> 0, output |-> None, cause |-> "none"]

\* DeepSeekModelClient.__init__: max_retries: int = 3
DefaultMaxRetries == 3

\* a client that has not been called; log is the ghost record of what the
\* loop of generate did, calls the number of calls of generate so far
NewClient(max_retries) ==
    [pc |-> "idle", max_retries |-> max_retries, stream |-> FALSE, attempt |-> 0,
     log |-> <<>>, value |-> None, calls |-> 0]

\* the client as create_agents leaves it: every default
DefaultClient == gen = NewClient(DefaultMaxRetries)

\* WebpageContentFetcher.__init__: max_retries: int = 3
DefaultFetchRetries == 3

\* a fetcher whose fetch has not been called; log is the ghost record of
\* what the loop of fetch did, calls the number of fetch_webpage calls
NewFetcher(max_retries) ==
    [pc |-> "idle", url |-> "", max_retries |-> max_retries, attempt |-> 0, log |-> <<>>,
     last_error |-> "", html_content |-> None, outcome |-> [raised |-> FALSE, value |-> <<>>],
     called |-> FALSE, content |-> None, fatal |-> FALSE, calls |-> 0]

\* the fetcher as WebFetcherAgent.__init__ makes it
NoFetch == fet = NewFetcher(DefaultFetchRetries)

\* estimate_tokens has not been called; tiktoken tells whether
\* tiktoken.get_encoding and encode work in this environment
NewEstimate(text, works) == [text |-> text, tiktoken |-> works, values |-> <<>>]
NoEstimate == est = NewEstimate(<<>>, TRUE)

\* the places where a response is turned into text
Sites == {"summarizer", "integrator", "cli"}

\* no response has been normalized
NoNorm == norm = [pc |-> "idle", resp |-> NoResp, text |-> [site \in Sites |-> None], calls |-> 0]

\* no agent has been called
NoAgentCall ==
    agent = [pc |-> "idle", name |-> "none", chat |-> [raised |-> FALSE, value |-> <<>>],
             outcome |-> [raised |-> FALSE, value |-> <<>>], calls |-> 0]

\* the environment holds an API key
KeyConfigured == DEEPSEEK_API_KEY = Some(<<"k">>)

InitTeam ==
    /\ NoCall
    /\ NoCli
    /\ NoFetch
    /\ NoEstimate
    /\ NoNorm
    /\ NoAgentCall
    /\ index = EmptyDict
    /\ files = EmptyDict
    /\ clock = 0
    /\ nextId = 1
    /\ pages = EmptyDict
    /\ IdleRun
    /\ prevRun = [u \in URLs |-> None]
    /\ deletes = 0
    /\ saves = 0

\* start_summarization(u) is entered
Starts(u) ==
    /\ pc = "idle"
    /\ pc' = "CACHE_CHECK"
    /\ url' = u
    /\ atStart' = [index |-> index, files |-> files]
    /\ UNCHANGED <<CHUNK_SIZE, callVars, chunkVars, storeVars, pages, prevRun, deletes, saves>>
    /\ UNCHANGED <<webpage_content, content_chunks, chunk_summaries, final_summary, result>>
    /\ UNCHANGED <<trace, calls, netFetches, integ, integratorCalls, saveCalls, saveRaised, cacheHit>>

\* the caller awaits start_summarization(u)
Start(u) == Starts(u) /\ UNCHANGED auxVars

\* cached_summary = self.storage.get_summary_by_url(url)
CacheCheck ==
    /\ pc = "CACHE_CHECK"
    /\ LET cached_summary == get_summary_by_url(url)
       IN IF cached_summary # None
            THEN /\ result' = Some(cached_summary[1].content)
                 /\ cacheHit' = TRUE
                 /\ pc' = "DONE"
            ELSE /\ UNCHANGED <<result, cacheHit>>
                 /\ pc' = "FETCH"
    /\ trace' = Append(trace, "CACHE_CHECK")
    /\ UNCHANGED <<CHUNK_SIZE, auxVars, callVars, chunkVars, storeVars, pages, prevRun, deletes, saves>>
    /\ UNCHANGED <<url, webpage_content, content_chunks, chunk_summaries, final_summary>>
    /\ UNCHANGED <<calls, netFetches, integ, integratorCalls, saveCalls, saveRaised, atStart>>

\* fetch_webpage finds the page file of url
FetchCached ==
    /\ pc = "FETCH"
    /\ url \in DOMAIN pages
    /\ webpage_content' = Some(ReadText(pages[url]))
    /\ pc' = IF Truthy(Some(ReadText(pages[url]))) THEN "CHUNK" ELSE "FAILED"
    /\ trace' = Append(trace, "FETCH")
    /\ UNCHANGED <<CHUNK_SIZE, auxVars, callVars, chunkVars, storeVars, pages, prevRun, deletes, saves>>
    /\ UNCHANGED <<url, content_chunks, chunk_summaries, final_summary, result>>
    /\ UNCHANGED <<calls, netFetches, integ, integratorCalls, saveCalls, saveRaised, cacheHit, atStart>>

\* fetch_webpage calls the network fetcher, which raises or returns text
FetchNetwork(outcome) ==
    /\ pc = "FETCH"
    /\ url \notin DOMAIN pages
    /\ netFetches' = netFetches + 1
    /\ IF outcome.raised
         THEN /\ webpage_content' = None
              /\ UNCHANGED pages
         ELSE /\ webpage_content' = Some(outcome.value)
              /\ pages' = Put(pages, url, WriteText(outcome.value))
    /\ pc' = IF ~outcome.raised /\ Truthy(Some(outcome.value)) THEN "CHUNK" ELSE "FAILED"
    /\ trace' = Append(trace, "FETCH")
    /\ UNCHANGED <<CHUNK_SIZE, auxVars, callVars, chunkVars, storeVars, prevRun, deletes, saves>>
    /\ UNCHANGED <<url, content_chunks, chunk_summaries, final_summary, result>>
    /\ UNCHANGED <<calls, integ, integratorCalls, saveCalls, saveRaised, cacheHit, atStart>>

\* content_chunks = await self.content_processor.process_content(webpage_content)
Chunk ==
    /\ pc = "CHUNK"
    /\ content_chunks' = process_content(webpage_content[1])
    /\ pc' = AfterSummary(0, Len(process_content(webpage_content[1])))
    /\ trace' = Append(trace, "CHUNK")
    /\ UNCHANGED <<CHUNK_SIZE, auxVars, callVars, chunkVars, storeVars, pages, prevRun, deletes, saves>>
    /\ UNCHANGED <<url, webpage_content, chunk_summaries, final_summary, result>>
    /\ UNCHANGED <<calls, netFetches, integ, integratorCalls, saveCalls, saveRaised, cacheHit, atStart>>

\* the loop body without its try/except: a summarizer error ends the run
SummarizeOne_NoHandler(outcome) ==
    /\ pc = "SUMMARIZE_EACH"
    /\ Len(chunk_summaries) < Len(content_chunks)
    /\ LET i == Len(chunk_summaries)
       IN /\ chunk_summaries' = IF outcome.raised THEN chunk_summaries
                                 ELSE Append(chunk_summaries, SummaryOf(i + 1, outcome))
          /\ calls' = Append(calls, [chunk |-> content_chunks[i + 1], outcome |-> outcome])
          /\ pc' = IF outcome.raised THEN "FAILED" ELSE AfterSummary(i + 1, Len(content_chunks))
          /\ trace' = IF i = 0 THEN Append(trace, "SUMMARIZE_EACH") ELSE trace
    /\ UNCHANGED <<CHUNK_SIZE, auxVars, callVars, chunkVars, storeVars, pages, prevRun, deletes, saves>>
    /\ UNCHANGED <<url, webpage_content, content_chunks, final_summary, result>>
    /\ UNCHANGED <<netFetches, integ, integratorCalls, saveCalls, saveRaised, cacheHit, atStart>>

\* a loop that calls the summarizer again for a chunk whose call raised
SummarizeOne_Retry(outcome) ==
    /\ pc = "SUMMARIZE_EACH"
    /\ Len(chunk_summaries) < Len(content_chunks)
    /\ LET i == Len(chunk_summaries)
       IN /\ chunk_summaries' = IF outcome.raised THEN chunk_summaries
                                 ELSE Append(chunk_summaries, SummaryOf(i + 1, outcome))
          /\ calls' = Append(calls, [chunk |-> content_chunks[i + 1], outcome |-> outcome])
          /\ pc' = IF outcome.raised THEN "SUMMARIZE_EACH" ELSE AfterSummary(i + 1, Len(content_chunks))
          /\ trace' = IF i = 0 /\ calls = <<>> THEN Append(trace, "SUMMARIZE_EACH") ELSE trace
    /\ UNCHANGED <<CHUNK_SIZE, auxVars, callVars, chunkVars, storeVars, pages, prevRun, deletes, saves>>
    /\ UNCHANGED <<url, webpage_content, content_chunks, final_summary, result>>
    /\ UNCHANGED <<netFetches, integ, integratorCalls, saveCalls, saveRaised, cacheHit, atStart>>

\* one iteration of the loop over enumerate(content_chunks)
SummarizeOne(outcome) ==
    /\ pc = "SUMMARIZE_EACH"
    /\ Len(chunk_summaries) < Len(content_chunks)
    /\ LET i == Len(chunk_summaries)
       IN /\ chunk_summaries' = Append(chunk_summaries, SummaryOf(i + 1, outcome))
          /\ calls' = Append(calls, [chunk |-> content_chunks[i + 1], outcome |-> outcome])
          /\ pc' = AfterSummary(i + 1, Len(content_chunks))
          /\ trace' = IF i = 0 THEN Append(trace, "SUMMARIZE_EACH") ELSE trace
    /\ UNCHANGED <<CHUNK_SIZE, auxVars, callVars, chunkVars, storeVars, pages, prevRun, deletes, saves>>
    /\ UNCHANGED <<url, webpage_content, content_chunks, final_summary, result>>
    /\ UNCHANGED <<netFetches, integ, integratorCalls, saveCalls, saveRaised, cacheHit, atStart>>

\* step 4 without the shortcut: a single summary goes to the integrator too
IntegrateSingle_NoShortcut ==
    /\ pc = "INTEGRATE"
    /\ Len(chunk_summaries) = 1
    /\ final_summary' = Some(<<"k">>)
    /\ integ' = "returned"
    /\ integratorCalls' = integratorCalls + 1
    /\ pc' = "PERSIST"
    /\ trace' = Append(trace, "INTEGRATE")
    /\ UNCHANGED <<CHUNK_SIZE, auxVars, callVars, chunkVars, storeVars, pages, prevRun, deletes, saves>>
    /\ UNCHANGED <<url, webpage_content, content_chunks, chunk_summaries, result>>
    /\ UNCHANGED <<calls, netFetches, saveCalls, saveRaised, cacheHit, atStart>>

\* step 4 with len(chunk_summaries) == 1
IntegrateSingle ==
    /\ pc = "INTEGRATE"
    /\ Len(chunk_summaries) = 1
    /\ final_summary' = Some(chunk_summaries[1])
    /\ pc' = "PERSIST"
    /\ trace' = Append(trace, "INTEGRATE")
    /\ UNCHANGED <<CHUNK_SIZE, auxVars, callVars, chunkVars, storeVars, pages, prevRun, deletes, saves>>
    /\ UNCHANGED <<url, webpage_content, content_chunks, chunk_summaries, result>>
    /\ UNCHANGED <<calls, netFetches, integ, integratorCalls, saveCalls, saveRaised, cacheHit, atStart>>

\* step 4 otherwise: one call of integrate_summaries, which returns or raises
IntegrateMany(outcome) ==
    /\ pc = "INTEGRATE"
    /\ Len(chunk_summaries) # 1
    /\ final_summary' = Some(IntegratedSummary(chunk_summaries, outcome))
    /\ integ' = IF outcome.raised THEN "raised" ELSE "returned"
    /\ integratorCalls' = integratorCalls + 1
    /\ pc' = "PERSIST"
    /\ trace' = Append(trace, "INTEGRATE")
    /\ UNCHANGED <<CHUNK_SIZE, auxVars, callVars, chunkVars, storeVars, pages, prevRun, deletes, saves>>
    /\ UNCHANGED <<url, webpage_content, content_chunks, chunk_summaries, result>>
    /\ UNCHANGED <<calls, netFetches, saveCalls, saveRaised, cacheHit, atStart>>

\* self.storage.save_summary(url, final_summary); return final_summary
Persist ==
    /\ pc = "PERSIST"
    /\ LET s == save_summary(url, final_summary[1])
       IN /\ index' = s.index
          /\ files' = s.files
          /\ clock' = s.clock
          /\ nextId' = s.nextId
    /\ saveCalls' = saveCalls + 1
    /\ result' = final_summary
    /\ pc' = "DONE"
    /\ trace' = Append(trace, "PERSIST")
    /\ UNCHANGED <<CHUNK_SIZE, auxVars, callVars, chunkVars, pages, prevRun, deletes, saves>>
    /\ UNCHANGED <<url, webpage_content, content_chunks, chunk_summaries, final_summary>>
    /\ UNCHANGED <<calls, netFetches, integ, integratorCalls, saveRaised, cacheHit, atStart>>

\* save_summary raises opening the content file; the outer handler re-raises
PersistRaises ==
    /\ pc = "PERSIST"
    /\ saveCalls' = saveCalls + 1
    /\ saveRaised' = TRUE
    /\ pc' = "FAILED"
    /\ trace' = Append(trace, "PERSIST")
    /\ UNCHANGED <<CHUNK_SIZE, auxVars, callVars, chunkVars, storeVars, pages, prevRun, deletes, saves>>
    /\ UNCHANGED <<url, webpage_content, content_chunks, chunk_summaries, final_summary, result>>
    /\ UNCHANGED <<calls, netFetches, integ, integratorCalls, cacheHit, atStart>>

\* start_summarization hands control back: its locals are gone
Returns ==
    /\ pc \in {"DONE", "FAILED"}
    /\ prevRun' = [prevRun EXCEPT ![url] = IF pc = "DONE" THEN Some(result[1]) ELSE @]
    /\ pc' = "idle"
    /\ url' = "u1"
    /\ webpage_content' = None
    /\ content_chunks' = <<>>
    /\ chunk_summaries' = <<>>
    /\ final_summary' = None
    /\ result' = None
    /\ trace' = <<>>
    /\ calls' = <<>>
    /\ netFetches' = 0
    /\ integ' = "none"
    /\ integratorCalls' = 0
    /\ saveCalls' = 0
    /\ saveRaised' = FALSE
    /\ cacheHit' = FALSE
    /\ atStart' = [index |-> EmptyDict, files |-> EmptyDict]
    /\ UNCHANGED <<CHUNK_SIZE, callVars, chunkVars, storeVars, pages, deletes, saves>>

\* the call has returned or raised; the caller goes on
Return == Returns /\ UNCHANGED auxVars

\* a direct call storage.delete_summary(x) between runs
DeleteCall(x) ==
    /\ pc = "idle"
    /\ deletes < MaxDeletes
    /\ deletes' = deletes + 1
    /\ index' = delete_summary(x).index
    /\ files' = delete_summary(x).files
    /\ prevRun' = [u \in URLs |-> IF u \in DOMAIN delete_summary(x).index THEN prevRun[u] ELSE None]
    /\ UNCHANGED <<CHUNK_SIZE, auxVars, callVars, chunkVars, clock, nextId, pages, runVars, ghostVars, saves>>

\* a direct call storage.save_summary(u, c) between runs
SaveCall(u, c) ==
    /\ pc = "idle"
    /\ saves < MaxSaves
    /\ saves' = saves + 1
    /\ LET s == save_summary(u, c)
       IN /\ index' = s.index
          /\ files' = s.files
          /\ clock' = s.clock
          /\ nextId' = s.nextId
    /\ prevRun' = [prevRun EXCEPT ![u] = None]
    /\ UNCHANGED <<CHUNK_SIZE, auxVars, callVars, chunkVars, pages, runVars, ghostVars, deletes>>

IdsInUse == {index[u].id : u \in DOMAIN index}

NextTeam ==
    \/ \E u \in URLs : Start(u)
    \/ CacheCheck
    \/ FetchCached
    \/ \E outcome \in FetchOutcomes(PageTexts) : FetchNetwork(outcome)
    \/ Chunk
    \/ \E outcome \in LLMOutcomes(SummarizerResponses) : SummarizeOne(outcome)
    \/ IntegrateSingle
    \/ \E outcome \in LLMOutcomes(IntegratorResponses) : IntegrateMany(outcome)
    \/ Persist
    \/ PersistRaises
    \/ Return
    \/ \E x \in URLs \cup IdsInUse : DeleteCall(x)
    \/ \E u \in URLs : SaveCall(u, <<"s">>)

\* ------------------------------------------------------- chunker runs
RECURSIVE Texts(_)
Texts(n) ==
    IF n = 0 THEN {<<>>}
    ELSE LET shorter == Texts(n - 1)
         IN shorter \cup {Append(t, c) : t \in {x \in shorter : Len(x) = n - 1}, c \in Alphabet}

NoChunkRun ==
    /\ content = <<>>
    /\ chunks = <<>>
    /\ hard = <<>>
    /\ op = "none"

InitChunk ==
    /\ CHUNK_SIZE \in 1..MaxBudget
    /\ KeyConfigured
    /\ DefaultClient
    /\ content \in Texts(MaxLen)
    /\ chunks = <<>>
    /\ hard = <<>>
    /\ op = "none"
    /\ InitTeam

\* a call _split_into_chunks(content)
CallSplit ==
    /\ op = "none"
    /\ chunks' = SplitAcc(content).chunks
    /\ hard' = SplitAcc(content).hard
    /\ op' = "split"
    /\ UNCHANGED <<CHUNK_SIZE, auxVars, content, teamVars, callVars>>

NextChunk == CallSplit

\* the characters of a page: a letter, a terminator, the whitespace, and a
\* character step 2 of _clean_content removes
RawAlphabet == {"a", ".", " ", NL, "#"}

RECURSIVE RawTexts(_)
RawTexts(n) ==
    IF n = 0 THEN {<<>>}
    ELSE LET shorter == RawTexts(n - 1)
         IN shorter \cup {Append(t, c) : t \in {x \in shorter : Len(x) = n - 1},
                                         c \in RawAlphabet}

InitProcess ==
    /\ CHUNK_SIZE \in 1..MaxBudget
    /\ KeyConfigured
    /\ DefaultClient
    /\ content \in RawTexts(MaxRawLen)
    /\ chunks = <<>>
    /\ hard = <<>>
    /\ op = "none"
    /\ InitTeam

\* a call process_content(content)
CallProcess ==
    /\ op = "none"
    /\ chunks' = process_content(content)
    /\ hard' = SplitAcc(_clean_content(content)).hard
    /\ op' = "process"
    /\ UNCHANGED <<CHUNK_SIZE, auxVars, content, teamVars, callVars>>

NextProcess == CallProcess

vars == <<CHUNK_SIZE, chunkVars, teamVars, callVars, auxVars>>

\* the chunker on every text up to MaxLen and every budget up to MaxBudget
SpecChunk == InitChunk /\ [][NextChunk]_vars

\* process_content on every page text up to MaxRawLen
SpecProcess == InitProcess /\ [][NextProcess]_vars

Init ==
    /\ CHUNK_SIZE \in 1..MaxBudget
    /\ KeyConfigured
    /\ DefaultClient
    /\ NoChunkRun
    /\ InitTeam

Next == NextTeam

\* runs of start_summarization, one at a time, with direct calls of the
\* store between them
Spec == Init /\ [][Next]_vars

\* a collaborator call of the run in progress (the store, the fetcher, the
\* summarizer, the integrator) returns or raises, and the run moves on to
\* the statement after it
CallReturns ==
    \/ CacheCheck
    \/ FetchCached
    \/ \E outcome \in FetchOutcomes(PageTexts) : FetchNetwork(outcome)
    \/ \E outcome \in LLMOutcomes(SummarizerResponses) : SummarizeOne(outcome)
    \/ IntegrateSingle
    \/ \E outcome \in LLMOutcomes(IntegratorResponses) : IntegrateMany(outcome)
    \/ Persist
    \/ PersistRaises

NextRun ==
    \/ \E u \in URLs : Start(u)
    \/ CallReturns
    \/ Chunk
    \/ Return

\* process_content is a computation of the run itself, a total function
\* here: a run does not stay at step 2
ChunkReturns == []<>(pc # "CHUNK")

\* runs of start_summarization, one after the other, in which no awaited
\* call hangs: every call made by a run in progress comes back
SpecRun == Init /\ [][NextRun]_vars /\ WF_vars(CallReturns) /\ ChunkReturns

\* ---------------------------------------------------- calls of the store
\* list_summaries(limit: int = 100, ...)
DefaultLimit == 100

\* the urls a caller passes: the two pages, the empty string, and the id of
\* a stored record used as a url
StoreURLs == URLs \cup {""} \cup IdsInUse

StoreTexts == { <<"s">>, <<"t", CR>> }

ListLimits == {0, 1, 2, DefaultLimit}

\* summary_id = storage.save_summary(u, c)
StoreSave(u, c) ==
    /\ pc = "idle"
    /\ saves < MaxStoreSaves
    /\ saves' = saves + 1
    /\ LET s == save_summary(u, c)
       IN /\ index' = s.index
          /\ files' = s.files
          /\ clock' = s.clock
          /\ nextId' = s.nextId
          /\ ret' = [op |-> IF s.raised THEN "save raised" ELSE "save",
                     arg |-> [url |-> u, content |-> c], value |-> s.value]
    /\ before' = [index |-> index, files |-> files]
    /\ UNCHANGED <<CHUNK_SIZE, auxVars, chunkVars, pages, runVars, ghostVars, prevRun, deletes, procs>>

\* ok = storage.delete_summary(x)
StoreDelete(x) ==
    /\ pc = "idle"
    /\ index' = delete_summary(x).index
    /\ files' = delete_summary(x).files
    /\ ret' = [op |-> "delete", arg |-> x, value |-> delete_summary(x).value]
    /\ before' = [index |-> index, files |-> files]
    /\ UNCHANGED <<CHUNK_SIZE, auxVars, chunkVars, clock, nextId, pages, runVars, ghostVars, prevRun, deletes, saves, procs>>

\* records = storage.list_summaries(limit)
StoreList(limit) ==
    /\ pc = "idle"
    /\ ret' = [op |-> "list", arg |-> limit, value |-> list_summaries(limit)]
    /\ before' = [index |-> index, files |-> files]
    /\ UNCHANGED <<CHUNK_SIZE, auxVars, chunkVars, teamVars, procs>>

\* record = storage.get_summary_by_id(x)
StoreGetById(x) ==
    /\ pc = "idle"
    /\ ret' = [op |-> "get_by_id", arg |-> x, value |-> get_summary_by_id(x)]
    /\ before' = [index |-> index, files |-> files]
    /\ UNCHANGED <<CHUNK_SIZE, auxVars, chunkVars, teamVars, procs>>

\* record = storage.get_summary_by_url(u)
StoreGetByUrl(u) ==
    /\ pc = "idle"
    /\ ret' = [op |-> "get_by_url", arg |-> u, value |-> get_summary_by_url(u)]
    /\ before' = [index |-> index, files |-> files]
    /\ UNCHANGED <<CHUNK_SIZE, auxVars, chunkVars, teamVars, procs>>

NextStore ==
    \/ \E u \in StoreURLs, c \in StoreTexts : StoreSave(u, c)
    \/ \E x \in StoreURLs : StoreDelete(x)
    \/ \E limit \in ListLimits : StoreList(limit)
    \/ \E x \in StoreURLs : StoreGetById(x)
    \/ \E u \in StoreURLs : StoreGetByUrl(u)

\* one caller using the store: saves, deletes, lists and lookups in any order
SpecStore == Init /\ [][NextStore]_vars

\* the summaries one caller may save when any str is allowed
AnyTexts == { <<"s">>, <<"t">>, <<Surrogate>> }

NextSaveDelete ==
    \/ \E u \in URLs, c \in AnyTexts : StoreSave(u, c)
    \/ \E x \in URLs \cup IdsInUse : StoreDelete(x)
    \/ \E u \in URLs : StoreGetByUrl(u)

\* one caller saving, deleting and looking up, one call after another
SpecSaveDelete == Init /\ [][NextSaveDelete]_vars

\* ---------------------------------------------------- concurrent saves
\* Two processes share the storage directory; each saves summaries of its
\* own url.  save_summary takes no lock, so its steps interleave.
ProcUrl == [p \in Procs |-> IF p = "p1" THEN "u1" ELSE "u2"]

\* index = self._load_index(); existing_id; summary_id = existing_id or
\* self._url_to_id(url)
ConcLoad(p, c) ==
    /\ pc = "idle"
    /\ procs[p].pc \in {"idle", "done"}
    /\ saves < MaxConcSaves
    /\ saves' = saves + 1
    /\ LET u == ProcUrl[p]
           existing == u \in DOMAIN index
       IN /\ procs' = [procs EXCEPT ![p] =
                [pc |-> "write_file", url |-> u, content |-> c, index |-> index,
                 summary_id |-> IF existing THEN index[u].id ELSE _url_to_id(nextId)]]
          /\ nextId' = IF existing THEN nextId ELSE nextId + 1
    /\ UNCHANGED <<CHUNK_SIZE, auxVars, chunkVars, index, files, clock, pages, runVars, ghostVars>>
    /\ UNCHANGED <<prevRun, deletes, ret, before>>

\* with open(summary_path, 'w') as f: f.write(content)
ConcWriteFile(p) ==
    /\ procs[p].pc = "write_file"
    /\ files' = Put(files, procs[p].summary_id, WriteText(procs[p].content))
    /\ procs' = [procs EXCEPT ![p].pc = "update"]
    /\ UNCHANGED <<CHUNK_SIZE, auxVars, chunkVars, index, clock, nextId, pages, runVars, ghostVars>>
    /\ UNCHANGED <<prevRun, deletes, saves, ret, before>>

\* index[url] = {...}; then _save_index opens the index file with 'w',
\* which empties it: a reader now gets {} from _load_index
ConcTruncate(p) ==
    /\ procs[p].pc = "update"
    /\ clock' = clock + 1
    /\ procs' = [procs EXCEPT ![p].pc = "dump",
                              ![p].index = Put(@, procs[p].url,
                                  IndexEntry(procs[p].summary_id, procs[p].url, clock + 1))]
    /\ index' = EmptyDict
    /\ UNCHANGED <<CHUNK_SIZE, auxVars, chunkVars, files, nextId, pages, runVars, ghostVars>>
    /\ UNCHANGED <<prevRun, deletes, saves, ret, before>>

\* json.dump(index, f): the index file now holds this process's copy
ConcDump(p) ==
    /\ procs[p].pc = "dump"
    /\ index' = procs[p].index
    /\ procs' = [procs EXCEPT ![p].pc = "done"]
    /\ UNCHANGED <<CHUNK_SIZE, auxVars, chunkVars, files, clock, nextId, pages, runVars, ghostVars>>
    /\ UNCHANGED <<prevRun, deletes, saves, ret, before>>

NextConc ==
    \/ \E p \in Procs, c \in StoreTexts : ConcLoad(p, c)
    \/ \E p \in Procs : ConcWriteFile(p)
    \/ \E p \in Procs : ConcTruncate(p)
    \/ \E p \in Procs : ConcDump(p)

\* the two processes saving, their steps in any order
SpecConc == Init /\ [][NextConc]_vars

\* ------------------------------------------- a reader beside a writer
\* Process p1 saves and deletes the summary of u1 while process p2 calls
\* get_summary_by_url("u1"); no call takes a lock.
\* the content of the k-th save
VersionText(k) == <<"v", ToString(k)>>

\* delete_summary(u): index = self._load_index(); the url is looked up
DelLoad(p) ==
    /\ pc = "idle"
    /\ procs[p].pc \in {"idle", "done"}
    /\ deletes < MaxDeletes
    /\ deletes' = deletes + 1
    /\ LET u == ProcUrl[p]
       IN procs' = [procs EXCEPT ![p] =
              [pc |-> IF u \in DOMAIN index THEN "unlink" ELSE "done",
               url |-> u, content |-> <<>>, index |-> index,
               summary_id |-> IF u \in DOMAIN index THEN index[u].id ELSE ""]]
    /\ UNCHANGED <<CHUNK_SIZE, auxVars, chunkVars, storeVars, pages, runVars, ghostVars>>
    /\ UNCHANGED <<prevRun, saves, ret, before>>

\* if summary_path.exists(): summary_path.unlink(); del index[url]
DelUnlink(p) ==
    /\ procs[p].pc = "unlink"
    /\ files' = Del(files, procs[p].summary_id)
    /\ procs' = [procs EXCEPT ![p].pc = "rewrite", ![p].index = Del(@, procs[p].url)]
    /\ UNCHANGED <<CHUNK_SIZE, auxVars, chunkVars, index, clock, nextId, pages, runVars, ghostVars>>
    /\ UNCHANGED <<prevRun, deletes, saves, ret, before>>

\* _save_index opens the index file with 'w', which empties it
DelTruncate(p) ==
    /\ procs[p].pc = "rewrite"
    /\ index' = EmptyDict
    /\ procs' = [procs EXCEPT ![p].pc = "dump"]
    /\ UNCHANGED <<CHUNK_SIZE, auxVars, chunkVars, files, clock, nextId, pages, runVars, ghostVars>>
    /\ UNCHANGED <<prevRun, deletes, saves, ret, before>>

\* get_summary_by_url(u): index = self._load_index(), which is {} while
\* the index file is empty
GetLoad(p, u) ==
    /\ pc = "idle"
    /\ procs[p].pc \in {"idle", "done"}
    /\ procs' = [procs EXCEPT ![p] =
          [pc |-> "check", url |-> u, content |-> <<>>, index |-> index, summary_id |-> ""]]
    /\ UNCHANGED <<CHUNK_SIZE, auxVars, chunkVars, storeVars, pages, runVars, ghostVars>>
    /\ UNCHANGED <<prevRun, deletes, saves, ret, before>>

\* if url not in index: return None; if not summary_path.exists(): return None
GetCheck(p) ==
    /\ procs[p].pc = "check"
    /\ LET u == procs[p].url
           found == u \in DOMAIN procs[p].index /\ procs[p].index[u].id \in DOMAIN files
       IN /\ procs' = [procs EXCEPT
                ![p].pc = IF found THEN "read" ELSE "done",
                ![p].summary_id = IF u \in DOMAIN procs[p].index THEN procs[p].index[u].id ELSE ""]
          /\ ret' = IF found THEN ret ELSE [op |-> "get_by_url", arg |-> u, value |-> None]
    /\ UNCHANGED <<CHUNK_SIZE, auxVars, chunkVars, storeVars, pages, runVars, ghostVars>>
    /\ UNCHANGED <<prevRun, deletes, saves, before>>

\* with open(summary_path, 'r') as f: content = f.read(), which raises
\* FileNotFoundError when the file is gone; the record is made of the
\* metadata loaded before and the content read now
GetRead(p) ==
    /\ procs[p].pc = "read"
    /\ procs' = [procs EXCEPT ![p].pc = "done"]
    /\ LET u == procs[p].url
           summary_id == procs[p].summary_id
       IN ret' = IF summary_id \notin DOMAIN files
                   THEN [op |-> "get_by_url raised", arg |-> u, value |-> None]
                   ELSE [op |-> "get_by_url", arg |-> u,
                         value |-> Some([id |-> summary_id, url |-> u,
                                         timestamp_unix |-> procs[p].index[u].timestamp_unix,
                                         content |-> ReadText(files[summary_id])])]
    /\ UNCHANGED <<CHUNK_SIZE, auxVars, chunkVars, storeVars, pages, runVars, ghostVars>>
    /\ UNCHANGED <<prevRun, deletes, saves, before>>

NextRead ==
    \/ ConcLoad("p1", VersionText(saves + 1))
    \/ ConcWriteFile("p1")
    \/ ConcTruncate("p1")
    \/ DelLoad("p1")
    \/ DelUnlink("p1")
    \/ DelTruncate("p1")
    \/ ConcDump("p1")
    \/ GetLoad("p2", ProcUrl["p1"])
    \/ GetCheck("p2")
    \/ GetRead("p2")

\* the writer and the reader, their steps in any order
SpecRead == Init /\ [][NextRead]_vars

\* ------------------------------------------------- the summarize command
\* what the environment may hold for DEEPSEEK_API_KEY: nothing, the empty
\* string, a key
ApiKeys == {None, Some(<<>>), Some(<<"k">>)}

\* a chain that looks at message.content before content
CliText_MessageFirst(r) ==
    IF r.msg # None THEN r.msg[1]
    ELSE IF r.content # None THEN r.content[1]
    ELSE IF r.key # None THEN r.key[1]
    ELSE IF r.str # None THEN r.str[1]
    ELSE r.repr

\* the hasattr/isinstance chain of summarize, and click.echo of its result
CliText(r) ==
    IF r.content # None THEN r.content[1]
    ELSE IF r.msg # None THEN r.msg[1]
    ELSE IF r.key # None THEN r.key[1]
    ELSE IF r.str # None THEN r.str[1]
    ELSE r.repr

\* a str as the chain sees it: no attribute content or message, no key
StrObj(t) == Resp(Some(t), None, None, None, t)

\* python run.py summarize --url u without a key: importing config raises
\* ValueError before any command runs, and the interpreter exits with 1
CliNoKey(u) ==
    /\ pc = "idle"
    /\ cli.pc \in {"shell", "exited"}
    /\ cli.runs < MaxCliRuns
    /\ ~Truthy(DEEPSEEK_API_KEY)
    /\ cli' = [pc |-> "exited", runs |-> cli.runs + 1, status |-> 1, output |-> None,
               cause |-> "credentials"]
    /\ UNCHANGED <<CHUNK_SIZE, chunkVars, teamVars, callVars, DEEPSEEK_API_KEY, toolVars>>

\* python run.py summarize --url u with a key: the command calls
\* asyncio.run(agents.start_summarization(u))
CliSummarize(u) ==
    /\ cli.pc \in {"shell", "exited"}
    /\ cli.runs < MaxCliRuns
    /\ Truthy(DEEPSEEK_API_KEY)
    /\ Starts(u)
    /\ cli' = [pc |-> "summarize", runs |-> cli.runs + 1, status |-> 0, output |-> None,
               cause |-> "none"]
    /\ UNCHANGED <<DEEPSEEK_API_KEY, toolVars>>

\* start_summarization returned: the summary is echoed; or it raised: the
\* handler echoes the error.  Either way summarize returns and click exits
\* with 0
CliExit ==
    /\ cli.pc = "summarize"
    /\ Returns
    /\ cli' = [cli EXCEPT
                !.pc = "exited",
                !.status = 0,
                !.output = IF pc = "DONE" THEN Some(CliText(StrObj(result[1]))) ELSE None,
                !.cause = IF pc = "DONE" THEN "none"
                          ELSE IF ~Truthy(webpage_content) THEN "fetch"
                          ELSE "save"]
    /\ UNCHANGED <<DEEPSEEK_API_KEY, toolVars>>

NextCli ==
    \/ \E u \in URLs : CliNoKey(u)
    \/ \E u \in URLs : CliSummarize(u)
    \/ CacheCheck
    \/ FetchCached
    \/ \E outcome \in FetchOutcomes(PageTexts) : FetchNetwork(outcome)
    \/ Chunk
    \/ \E outcome \in LLMOutcomes(SummarizerResponses) : SummarizeOne(outcome)
    \/ IntegrateSingle
    \/ \E outcome \in LLMOutcomes(IntegratorResponses) : IntegrateMany(outcome)
    \/ Persist
    \/ PersistRaises
    \/ CliExit

InitCli ==
    /\ CHUNK_SIZE \in 1..MaxBudget
    /\ DEEPSEEK_API_KEY \in ApiKeys
    /\ DefaultClient
    /\ NoChunkRun
    /\ InitTeam

\* the summarize command run from the shell, one process after another
SpecCli == InitCli /\ [][NextCli]_vars

\* ------------------------------------------ DeepSeekModelClient.generate
\* the values a client may be constructed with for max_retries
RetryCounts == 0..MaxRetries

\* what self.client.create may hand back
ApiResponses == {<<"r">>, <<>>}

\* generate(messages, stream = st) is called: the for loop over
\* range(self.max_retries) is entered; when the range is empty the body
\* never runs and the function falls off its end, returning None
GenerateCall(st) ==
    /\ gen.pc \in {"idle", "returned", "raised"}
    /\ gen.calls < MaxGenerateCalls
    /\ gen' = [gen EXCEPT
                !.pc = IF gen.max_retries > 0 THEN "try" ELSE "returned",
                !.stream = st,
                !.attempt = 0,
                !.log = <<>>,
                !.value = None,
                !.calls = gen.calls + 1]
    /\ UNCHANGED <<CHUNK_SIZE, chunkVars, teamVars, callVars, notGen>>

\* the try block of one iteration: _generate_sync or _generate_stream
\* returns and generate returns its value
GenerateAttemptReturns(r) ==
    /\ gen.pc = "try"
    /\ gen' = [gen EXCEPT !.pc = "returned", !.value = Some(r), !.log = Append(gen.log, "ok")]
    /\ UNCHANGED <<CHUNK_SIZE, chunkVars, teamVars, callVars, notGen>>

\* the try block raises: the handler sleeps when attempts remain
\* (attempt < self.max_retries - 1), and raises the terminal error otherwise
GenerateAttemptRaises ==
    /\ gen.pc = "try"
    /\ gen' = [gen EXCEPT
                !.pc = IF gen.attempt < gen.max_retries - 1 THEN "sleep" ELSE "raised",
                !.log = Append(gen.log, "fail")]
    /\ UNCHANGED <<CHUNK_SIZE, chunkVars, teamVars, callVars, notGen>>

\* time.sleep(self.retry_wait) is over: the next iteration
GenerateSleep ==
    /\ gen.pc = "sleep"
    /\ gen' = [gen EXCEPT !.pc = "try", !.attempt = gen.attempt + 1, !.log = Append(gen.log, "sleep")]
    /\ UNCHANGED <<CHUNK_SIZE, chunkVars, teamVars, callVars, notGen>>

NextGenerate ==
    \/ \E st \in BOOLEAN : GenerateCall(st)
    \/ \E r \in ApiResponses : GenerateAttemptReturns(r)
    \/ GenerateAttemptRaises
    \/ GenerateSleep

InitGenerate ==
    /\ CHUNK_SIZE \in 1..MaxBudget
    /\ KeyConfigured
    /\ gen \in {NewClient(n) : n \in RetryCounts}
    /\ NoChunkRun
    /\ InitTeam

\* one client, constructed with any max_retries, called again and again
SpecGenerate == InitGenerate /\ [][NextGenerate]_vars

\* ------------------------------ generate_summary and integrate_summaries
\* how user_proxy.initiate_chat may end: the LLM backend fails and the call
\* raises, or it returns and user_proxy.chat_messages[self.agent.name]
\* holds these message contents
ChatLogs == { <<>>, << <<"p">> >>, << <<"p">>, <<"r">> >>, << <<"p">>, <<>> >> }
ChatOutcomes == {Raised(<<>>)} \cup {Returned(log) : log \in ChatLogs}

\* "无法生成摘要。" and "无法整合摘要。"
NoSummaryText == <<"-", "s">>
NoIntegrationText == <<"-", "i">>

\* what either method does after building its prompt: await initiate_chat,
\* with no handler around it; then the content of the last message, or the
\* fixed text when there is no message
AfterChat(chat, fixed) ==
    IF chat.raised THEN Raised(<<>>)
    ELSE IF chat.value # <<>> THEN Returned(chat.value[Len(chat.value)])
    ELSE Returned(fixed)

generate_summary(chat) == AfterChat(chat, NoSummaryText)
integrate_summaries(chat) == AfterChat(chat, NoIntegrationText)

\* the pipeline calls one of the two methods
AgentCall(name) ==
    /\ agent.pc \in {"idle", "ended"}
    /\ agent.calls < MaxAgentCalls
    /\ agent' = [agent EXCEPT !.pc = "chat", !.name = name, !.calls = agent.calls + 1,
                              !.chat = Returned(<<>>), !.outcome = Returned(<<>>)]
    /\ UNCHANGED <<CHUNK_SIZE, chunkVars, teamVars, callVars, notAgent>>

\* the chat ends and with it the method
AgentChatEnds(chat) ==
    /\ agent.pc = "chat"
    /\ agent' = [agent EXCEPT
                  !.pc = "ended",
                  !.chat = chat,
                  !.outcome = IF agent.name = "summarizer" THEN generate_summary(chat)
                              ELSE integrate_summaries(chat)]
    /\ UNCHANGED <<CHUNK_SIZE, chunkVars, teamVars, callVars, notAgent>>

NextAgents ==
    \/ \E name \in {"summarizer", "integrator"} : AgentCall(name)
    \/ \E chat \in ChatOutcomes : AgentChatEnds(chat)

\* the two agents called one call after another, each chat ending any way
SpecAgents == Init /\ [][NextAgents]_vars

\* ------------------------------------------- WebpageContentFetcher.fetch
\* the urls handed to fetch_webpage, and what urlparse makes of them
FetchUrls == {"http://h", "https://h", "ftp://h", "http://", "h"}

urlparse(u) ==
    CASE u = "http://h" -> [scheme |-> "http", netloc |-> "h"]
      [] u = "https://h" -> [scheme |-> "https", netloc |-> "h"]
      [] u = "ftp://h" -> [scheme |-> "ftp", netloc |-> "h"]
      [] u = "http://" -> [scheme |-> "http", netloc |-> ""]
      [] OTHER -> [scheme |-> "", netloc |-> ""]

\* all([result.scheme, result.netloc]) and result.scheme in ['http', 'https']
_is_valid_url(u) ==
    /\ urlparse(u).scheme # ""
    /\ urlparse(u).netloc # ""
    /\ urlparse(u).scheme \in {"http", "https"}

\* the handlers of the loop: Timeout, ConnectionError, HTTPError, Exception
FetchErrors == {"timeout", "connection", "http", "unknown"}

\* the pages _process_content may make of a response: no text, a line, a
\* title with a carriage return inside it (only the lines of the body go
\* through splitlines)
FetchedTexts == { <<>>, <<"a">>, <<"a", CR, "a">> }

\* fetch_webpage(u): the page file exists and is read; or fetch(u) is
\* called, which raises ValueError for an invalid url, and otherwise enters
\* its loop over range(self.max_retries); after an empty range
\* html_content and last_error are None and the Exception of line 102 is
\* raised
FetchCall(u) ==
    /\ fet.pc \in {"idle", "done"}
    /\ fet.calls < MaxFetchCalls
    /\ fet' = [NewFetcher(fet.max_retries) EXCEPT
                !.url = u,
                !.calls = fet.calls + 1,
                !.called = u \notin DOMAIN pages,
                !.pc = IF u \in DOMAIN pages THEN "done"
                       ELSE IF ~_is_valid_url(u) \/ fet.max_retries <= 0 THEN "fetched"
                       ELSE "try",
                !.outcome = IF u \in DOMAIN pages THEN Returned(<<>>)
                            ELSE IF ~_is_valid_url(u) THEN Raised(<<"invalid">>)
                            ELSE IF fet.max_retries <= 0 THEN Raised(<<"none">>)
                            ELSE Returned(<<>>),
                !.content = IF u \in DOMAIN pages THEN Some(ReadText(pages[u])) ELSE None,
                !.fatal = u \in DOMAIN pages /\ ~Truthy(Some(ReadText(pages[u])))]
    /\ UNCHANGED <<CHUNK_SIZE, chunkVars, teamVars, callVars, notFet>>

\* session.get and raise_for_status succeed: html_content is set, the loop
\* is left, and fetch returns what _process_content makes of the response
FetchAttemptReturns(text) ==
    /\ fet.pc = "try"
    /\ fet' = [fet EXCEPT !.pc = "fetched", !.html_content = Some(text),
                          !.outcome = Returned(text), !.log = Append(fet.log, "ok")]
    /\ UNCHANGED <<CHUNK_SIZE, chunkVars, teamVars, callVars, notFet>>

\* handlers that keep the error of the first failed attempt
FetchAttemptRaises_KeepsFirst(e) ==
    /\ fet.pc = "try"
    /\ fet' = [fet EXCEPT !.pc = "sleep",
                          !.last_error = IF fet.last_error = "" THEN e ELSE fet.last_error,
                          !.log = Append(fet.log, e)]
    /\ UNCHANGED <<CHUNK_SIZE, chunkVars, teamVars, callVars, notFet>>

\* the attempt raises: its handler sets last_error and sleeps
FetchAttemptRaises(e) ==
    /\ fet.pc = "try"
    /\ fet' = [fet EXCEPT !.pc = "sleep", !.last_error = e, !.log = Append(fet.log, e)]
    /\ UNCHANGED <<CHUNK_SIZE, chunkVars, teamVars, callVars, notFet>>

\* time.sleep(self.retry_wait) is over: the next iteration, or the range is
\* used up, html_content is None and last_error is raised
FetchSleep ==
    /\ fet.pc = "sleep"
    /\ fet' = IF fet.attempt + 1 < fet.max_retries
                THEN [fet EXCEPT !.pc = "try", !.attempt = fet.attempt + 1,
                                 !.log = Append(fet.log, "sleep")]
                ELSE [fet EXCEPT !.pc = "fetched", !.outcome = Raised(<<fet.last_error>>),
                                 !.log = Append(fet.log, "sleep")]
    /\ UNCHANGED <<CHUNK_SIZE, chunkVars, teamVars, callVars, notFet>>

\* fetch_webpage after fetch: the text is written to the page file and
\* returned, or the handler returns None; start_summarization raises
\* ValueError when what it got is falsy
FetchWebpageEnds ==
    /\ fet.pc = "fetched"
    /\ fet' = [fet EXCEPT
                !.pc = "done",
                !.content = IF fet.outcome.raised THEN None ELSE Some(fet.outcome.value),
                !.fatal = fet.outcome.raised \/ ~Truthy(Some(fet.outcome.value))]
    /\ pages' = IF fet.outcome.raised THEN pages
                ELSE Put(pages, fet.url, WriteText(fet.outcome.value))
    /\ UNCHANGED <<CHUNK_SIZE, chunkVars, storeVars, runVars, ghostVars, prevRun, deletes, saves>>
    /\ UNCHANGED <<callVars, notFet>>

NextFetch ==
    \/ \E u \in FetchUrls : FetchCall(u)
    \/ \E text \in FetchedTexts : FetchAttemptReturns(text)
    \/ \E e \in FetchErrors : FetchAttemptRaises(e)
    \/ FetchSleep
    \/ FetchWebpageEnds

InitFetch ==
    /\ CHUNK_SIZE \in 1..MaxBudget
    /\ KeyConfigured
    /\ DefaultClient
    /\ NoChunkRun
    /\ NoCall
    /\ NoCli
    /\ fet \in {NewFetcher(n) : n \in RetryCounts}
    /\ NoEstimate
    /\ NoNorm
    /\ NoAgentCall
    /\ index = EmptyDict
    /\ files = EmptyDict
    /\ clock = 0
    /\ nextId = 1
    /\ pages = EmptyDict
    /\ IdleRun
    /\ prevRun = [u \in URLs |-> None]
    /\ deletes = 0
    /\ saves = 0

\* one WebFetcherAgent whose fetcher was constructed with any max_retries
SpecFetch == InitFetch /\ [][NextFetch]_vars

\* ------------------------------------------------ response normalization
\* the shapes a response may have: a str, which has neither attribute nor
\* key; or an object with any of the attribute content, the attribute
\* message.content and the key 'content', whose str() is "o"
ResponseShapes ==
    { StrObj(t) : t \in {<<>>, <<"x">>} } \cup
    { Resp(None, c, m, k, <<"o">>) :
        c \in {None, Some(<<"c">>)}, m \in {None, Some(<<"m">>)}, k \in {None, Some(<<"k">>)} }

\* what a call site makes of a response: the chain of lines 92-101, its
\* copy of lines 114-123, or the chain of summarize with click.echo
TextAt(site, r) == IF site = "cli" THEN CliText(r) ELSE ToText(r)

\* a response arrives
Respond(r) ==
    /\ norm.pc = "idle" \/ \A site \in Sites : norm.text[site] # None
    /\ norm.calls < MaxResponses
    /\ norm' = [pc |-> "got", resp |-> r, text |-> [site \in Sites |-> None],
                calls |-> norm.calls + 1]
    /\ UNCHANGED <<CHUNK_SIZE, chunkVars, teamVars, callVars, notNorm>>

\* a call site normalizes it
Normalize(site) ==
    /\ norm.pc = "got"
    /\ norm.text[site] = None
    /\ norm' = [norm EXCEPT !.text[site] = Some(TextAt(site, norm.resp))]
    /\ UNCHANGED <<CHUNK_SIZE, chunkVars, teamVars, callVars, notNorm>>

NextNorm ==
    \/ \E r \in ResponseShapes : Respond(r)
    \/ \E site \in Sites : Normalize(site)

\* responses of every shape, each normalized at every call site
SpecNorm == Init /\ [][NextNorm]_vars

\* -------------------------------------------------------- estimate_tokens
\* a character outside ASCII and outside U+4E00..U+9FFF, such as U+00E9;
\* Wide is a character of U+4E00..U+9FFF
Accented == "E"
EstimateAlphabet == {"a", Wide, Accented}

RECURSIVE EstimateTexts(_)
EstimateTexts(n) ==
    IF n = 0 THEN {<<>>}
    ELSE LET shorter == EstimateTexts(n - 1)
         IN shorter \cup {Append(t, c) : t \in {x \in shorter : Len(x) = n - 1},
                                         c \in EstimateAlphabet}

\* sum(1 for c in text if ...)
CountIn(text, cs) == Cardinality({i \in 1..Len(text) : text[i] \in cs})

\* a fallback that truncates each quotient before adding
FallbackEstimate_TruncatesEachTerm(text) ==
    LET english_chars == CountIn(text, {"a"})
        chinese_chars == CountIn(text, {Wide})
        other_chars == Len(text) - english_chars - chinese_chars
    IN (english_chars \div 4) + (chinese_chars * 2) + (other_chars \div 3)

\* the except branch: int((english_chars / 4) + (chinese_chars * 2) +
\* (other_chars / 3)), the quotients being floats; twelve times the sum is
\* the integer 3 * english_chars + 24 * chinese_chars + 4 * other_chars
FallbackEstimate(text) ==
    LET english_chars == CountIn(text, {"a"})
        chinese_chars == CountIn(text, {Wide})
        other_chars == Len(text) - english_chars - chinese_chars
    IN (3 * english_chars + 24 * chinese_chars + 4 * other_chars) \div 12

\* estimate_tokens(text): the try block when tiktoken works, the bare
\* except otherwise
estimate_tokens(text, works) ==
    IF works THEN TokenLen(text) ELSE FallbackEstimate(text)

\* a call estimate_tokens(est.text)
EstimateCall ==
    /\ Len(est.values) < MaxEstimateCalls
    /\ est' = [est EXCEPT !.values = Append(@, estimate_tokens(est.text, est.tiktoken))]
    /\ UNCHANGED <<CHUNK_SIZE, chunkVars, teamVars, callVars, notEst>>

NextEstimate == EstimateCall

InitEstimate ==
    /\ CHUNK_SIZE \in 1..MaxBudget
    /\ KeyConfigured
    /\ DefaultClient
    /\ NoChunkRun
    /\ NoCall
    /\ NoCli
    /\ NoFetch
    /\ est \in {NewEstimate(t, w) : t \in EstimateTexts(MaxEstimateLen), w \in BOOLEAN}
    /\ NoNorm
    /\ NoAgentCall
    /\ index = EmptyDict
    /\ files = EmptyDict
    /\ clock = 0
    /\ nextId = 1
    /\ pages = EmptyDict
    /\ IdleRun
    /\ prevRun = [u \in URLs |-> None]
    /\ deletes = 0
    /\ saves = 0

\* estimate_tokens called on any text, with and without tiktoken
SpecEstimate == InitEstimate /\ [][NextEstimate]_vars

\* ---------------------------------------------------------------- claims
StageOrder == <<"CACHE_CHECK", "FETCH", "CHUNK", "SUMMARIZE_EACH", "INTEGRATE", "PERSIST">>

Entered(stage) == \E k \in 1..Len(trace) : trace[k] = stage

\* the run went past the cache check and has its fetch behind it
Fetched == Entered("FETCH")

\* the fetch yielded no content: the fetcher raised, or the text is empty
NoContent == webpage_content = None \/ webpage_content = Some(<<>>)

\* the record save_summary wrote for u: u is in the index and the content
\* file named by its id holds text
Recorded(u, text) ==
    /\ u \in DOMAIN index
    /\ index[u].url = u
    /\ index[u].id \in DOMAIN files
    /\ files[index[u].id] = text

\* the summaries joined by blank lines, left to right from position k
RECURSIVE BlankLineConcat(_, _)
BlankLineConcat(ss, k) ==
    IF k > Len(ss) THEN <<>>
    ELSE (IF k > 1 THEN <<NL, NL>> ELSE <<>>) \o ss[k] \o BlankLineConcat(ss, k + 1)

\* C1: a run for a url whose previous run returned a summary, the record
\* untouched since, goes from the cache check straight to DONE: it fetches
\* nothing, chunks nothing, calls neither summarizer nor integrator, saves
\* nothing, and returns exactly the summary the previous run stored and
\* returned.
C1_SecondCallIsCacheHit ==
    (pc \notin {"idle", "CACHE_CHECK"} /\ prevRun[url] # None) =>
        /\ pc = "DONE"
        /\ cacheHit
        /\ result = prevRun[url]
        /\ trace = <<"CACHE_CHECK">>
        /\ netFetches = 0
        /\ webpage_content = None
        /\ content_chunks = <<>>
        /\ calls = <<>>
        /\ integratorCalls = 0
        /\ saveCalls = 0
        /\ index = atStart.index
        /\ files = atStart.files

\* C2: once the loop is over, chunk_summaries is as long as content_chunks;
\* call number i of the summarizer got chunk i, and position i holds the
\* normalized text of what it returned, or the placeholder with the 1-based
\* number i if it raised.
C2_SummariesPairWithChunks ==
    /\ Len(calls) = Len(chunk_summaries)
    /\ Len(chunk_summaries) <= Len(content_chunks)
    /\ (Entered("INTEGRATE") \/ pc = "INTEGRATE") => Len(chunk_summaries) = Len(content_chunks)
    /\ \A i \in 1..Len(chunk_summaries) :
        /\ calls[i].chunk = content_chunks[i]
        /\ chunk_summaries[i] =
             IF calls[i].outcome.raised THEN <<"[", ToString(i), "]">>
             ELSE ToText(calls[i].outcome.value)

C2_Witness ==
    /\ pc = "INTEGRATE"
    /\ Len(content_chunks) = 2
    /\ ~calls[1].outcome.raised
    /\ calls[2].outcome.raised

C5_ReturnedSummaryIsStored ==
    (pc = "DONE" /\ ~cacheHit) =>
        /\ result # None
        /\ saveCalls = 1
        /\ ~saveRaised
        /\ Recorded(url, result[1])

C5_Witness ==
    /\ pc = "DONE"
    /\ ~cacheHit
    /\ integ = "raised"
    /\ \E i \in 1..Len(calls) : calls[i].outcome.raised

\* C6: when the integrator raised on two or more summaries, the final
\* summary is the summaries in order with a blank line between neighbours,
\* and that is what the run returns and stores.
C6_FallbackIsOrderedConcatenation ==
    (integ = "raised" /\ Len(chunk_summaries) >= 2) =>
        /\ final_summary = Some(BlankLineConcat(chunk_summaries, 1))
        /\ pc = "DONE" =>
            /\ result = Some(BlankLineConcat(chunk_summaries, 1))
            /\ Recorded(url, BlankLineConcat(chunk_summaries, 1))

C6_Witness ==
    /\ pc = "DONE"
    /\ integ = "raised"
    /\ Len(chunk_summaries) = 2
    /\ chunk_summaries[1] # chunk_summaries[2]

\* C7: the integrator is called only on more than one summary and never on
\* a cache hit; a run past INTEGRATE has called it once if it had more than
\* one summary and not at all otherwise, and with one summary the final
\* summary is that summary.
C7_IntegratorOnlyForSeveral ==
    /\ integratorCalls > 0 => (Len(chunk_summaries) > 1 /\ ~cacheHit)
    /\ Entered("INTEGRATE") =>
        /\ integratorCalls = (IF Len(chunk_summaries) > 1 THEN 1 ELSE 0)
        /\ Len(chunk_summaries) = 1 => final_summary = Some(chunk_summaries[1])
    /\ ~Entered("INTEGRATE") => (integratorCalls = 0 /\ integ = "none")

C7_Witness ==
    /\ pc = "PERSIST"
    /\ Len(chunk_summaries) = 1
    /\ integratorCalls = 0
    /\ final_summary = Some(<<"[", "1", "]">>)

\* C8: the stages a run has entered are an initial part of CACHE_CHECK,
\* FETCH, CHUNK, SUMMARIZE_EACH, INTEGRATE, PERSIST, each at most once;
\* chunking starts only on fetched content, integration only when every
\* chunk has its summary or placeholder, save_summary only on a fixed final
\* summary, and DONE follows the cache check or PERSIST.
C8_StagesInOrder ==
    /\ Len(trace) <= Len(StageOrder)
    /\ \A k \in 1..Len(trace) : trace[k] = StageOrder[k]
    /\ Entered("CHUNK") => ~NoContent
    /\ (Entered("INTEGRATE") \/ integratorCalls > 0) =>
          (Len(chunk_summaries) = Len(content_chunks) /\ Len(calls) = Len(content_chunks))
    /\ saveCalls > 0 => (final_summary # None /\ Entered("INTEGRATE"))
    /\ saveCalls <= 1
    /\ pc = "DONE" => (trace = <<"CACHE_CHECK">> \/ trace = StageOrder)
    /\ pc = "idle" => trace = <<>>

C8_Witness ==
    /\ pc = "DONE"
    /\ trace = StageOrder
    /\ Len(content_chunks) = 2
    /\ integratorCalls = 1

\* the bytes of the characters of s that are not whitespace
RECURSIVE NonSpaceBytes(_)
NonSpaceBytes(s) ==
    IF s = <<>> THEN <<>>
    ELSE IF IsSpace(s[1]) THEN NonSpaceBytes(Tail(s))
    ELSE IF s[1] = Wide THEN <<"w1", "w2">> \o NonSpaceBytes(Tail(s))
    ELSE <<s[1]>> \o NonSpaceBytes(Tail(s))

\* pat lies in t right after position j; a replacement character stands
\* for any one byte
MatchAt(pat, t, j) ==
    /\ j + Len(pat) <= Len(t)
    /\ \A k \in 1..Len(pat) : pat[k] = Replacement \/ pat[k] = t[j + k]

\* the chunks cs lie in t after position j, one after the other without
\* overlap, whitespace aside
RECURSIVE InOrderFrom(_, _, _)
InOrderFrom(cs, t, j) ==
    IF cs = <<>> THEN TRUE
    ELSE LET pat == NonSpaceBytes(Head(cs))
             at == {k \in j..Len(t) : MatchAt(pat, t, k)}
         IN /\ at # {}
            /\ InOrderFrom(Tail(cs), t, (CHOOSE k \in at : \A m \in at : k <= m) + Len(pat))

\* C9: every chunk _split_into_chunks returns that is not a hard-split
\* window has at most CHUNK_SIZE tokens.
C9_ChunkWithinBudget ==
    op = "split" =>
        \A i \in 1..Len(chunks) : ~hard[i] => TokenLen(chunks[i]) <= CHUNK_SIZE

\* C10: the chunks _split_into_chunks returns are in document order: they
\* lie in the input one after the other, whitespace aside.
C10_ChunksInDocumentOrder ==
    op = "split" => InOrderFrom(chunks, NonSpaceBytes(content), 0)

\* the characters of s that are not whitespace
NonSpace(s) == SelectSeq(s, LAMBDA c : ~IsSpace(c))

\* C11: the chunks _split_into_chunks returns, concatenated in output
\* order, hold the non-whitespace characters of the input, each once and in
\* place: none dropped, none added, none repeated.
C11_ChunksCoverText ==
    op = "split" => NonSpace(Flatten(chunks)) = NonSpace(content)

\* C12: when the text has at most CHUNK_SIZE tokens, CHUNK_SIZE exactly
\* included, _split_into_chunks returns the list of the text itself,
\* whitespace and all.
C12_ShortInputPassesThrough ==
    (op = "split" /\ TokenLen(content) <= CHUNK_SIZE) => chunks = <<content>>

C12_Witness ==
    /\ op = "split"
    /\ TokenLen(content) = CHUNK_SIZE
    /\ CHUNK_SIZE = 2
    /\ content[1] = " "
    /\ content[Len(content)] = NL
    /\ chunks = <<content>>

\* C13: on a text that is not empty _split_into_chunks returns at least
\* one chunk, whatever the budget.
C13_SomeChunkForNonEmptyText ==
    (op = "split" /\ content # <<>>) => chunks # <<>>

\* the text is one paragraph that is one sentence, above the budget
OneLongSentence ==
    /\ TokenLen(content) > CHUNK_SIZE
    /\ Paragraphs(content) = <<content>>
    /\ Sentences(content) = <<content>>

\* tokens (i-1)*CHUNK_SIZE+1 .. i*CHUNK_SIZE of the text, as far as they exist
TokenWindow(i) ==
    LET tokens == Encode(content)
        last == IF i * CHUNK_SIZE < Len(tokens) THEN i * CHUNK_SIZE ELSE Len(tokens)
    IN SubSeq(tokens, (i - 1) * CHUNK_SIZE + 1, last)

\* C14: a text that is one sentence of n > CHUNK_SIZE tokens comes back as
\* ceil(n / CHUNK_SIZE) chunks, all of them hard-split windows: chunk i is
\* the decoding of tokens (i-1)*CHUNK_SIZE+1 .. min(i*CHUNK_SIZE, n), so
\* the windows hold between 1 and CHUNK_SIZE tokens and cut the token
\* sequence in order, leaving no gap and no overlap.
C14_HardSplitWindows ==
    (op = "split" /\ OneLongSentence) =>
        LET n == TokenLen(content)
        IN /\ Len(chunks) = (n + CHUNK_SIZE - 1) \div CHUNK_SIZE
           /\ \A i \in 1..Len(chunks) :
                /\ hard[i]
                /\ chunks[i] = Decode(TokenWindow(i))
                /\ Len(TokenWindow(i)) \in 1..CHUNK_SIZE
           /\ Flatten([i \in 1..Len(chunks) |-> TokenWindow(i)]) = Encode(content)

C14_Witness ==
    /\ op = "split"
    /\ OneLongSentence
    /\ CHUNK_SIZE = 2
    /\ TokenLen(content) = 5
    /\ Len(chunks) = 3
    /\ hard = <<TRUE, TRUE, TRUE>>

\* the pieces of the text between its blank lines
Pieces == SplitBlank(content, <<>>)

\* the text is paragraphs separated by blank lines, each of the same token
\* count, which fits the budget, and the text as a whole does not
EqualParagraphs ==
    /\ TokenLen(content) > CHUNK_SIZE
    /\ \A i \in 1..Len(Pieces) :
        /\ StripNonEmpty(Pieces[i])
        /\ TokenLen(Pieces[i]) = TokenLen(Pieces[1])
        /\ TokenLen(Pieces[i]) <= CHUNK_SIZE

\* the chunks are the paragraphs taken floor(CHUNK_SIZE / t) at a time, in
\* order, joined by blank lines
GreedyGroups ==
    LET k == Len(Pieces)
        m == CHUNK_SIZE \div TokenLen(Pieces[1])
        upto(j) == IF j * m < k THEN j * m ELSE k
    IN /\ Len(chunks) = (k + m - 1) \div m
       /\ \A j \in 1..Len(chunks) :
            chunks[j] = JoinNN(SubSeq(Pieces, (j - 1) * m + 1, upto(j)))

\* C15: a text of k paragraphs of t <= CHUNK_SIZE tokens each, above the
\* budget as a whole, comes back as ceil(k / floor(CHUNK_SIZE / t)) chunks,
\* each the next floor(CHUNK_SIZE / t) whole paragraphs (the last one the
\* rest), and no chunk has more than CHUNK_SIZE tokens.
C15_GreedyParagraphs ==
    (op = "split" /\ EqualParagraphs) =>
        /\ GreedyGroups
        /\ \A j \in 1..Len(chunks) : TokenLen(chunks[j]) <= CHUNK_SIZE

\* the id of u's record is the one it had before the call, when it had one
IdKept(u) ==
    /\ u \in DOMAIN index
    /\ u \in DOMAIN before.index => index[u].id = before.index[u].id

\* C16: after save_summary(u, c) the record of u has the id the call
\* returned, which is the id it had before the call if u was stored (so the
\* id of the first save stays through every later save), and
\* get_summary_by_url(u) returns the content c just saved.
C16_SaveKeepsIdAndReturnsLatest ==
    ret.op = "save" =>
        /\ IdKept(ret.arg.url)
        /\ index[ret.arg.url].id = ret.value
        /\ get_summary_by_url(ret.arg.url) # None
        /\ get_summary_by_url(ret.arg.url)[1].content = ret.arg.content

\* everything list_summaries can return
AllListed == list_summaries(Cardinality(DOMAIN index))

\* get_summary_by_id of the id of u's record returns that record
FoundById(u) ==
    LET r == get_summary_by_id(index[u].id)
    IN /\ r # None
       /\ r[1].url = u
       /\ r[1].id = index[u].id

\* C17: the store holds at most one record per url: list_summaries returns
\* no two records with the same url, it returns a record for every stored
\* url, and get_summary_by_id of a record's id returns that record.
C17_OneRecordPerUrl ==
    /\ \A i, j \in 1..Len(AllListed) : AllListed[i].url = AllListed[j].url => i = j
    /\ {AllListed[i].url : i \in 1..Len(AllListed)} = DOMAIN index
    /\ \A u \in DOMAIN index : FoundById(u)

\* the save of process p is in the store: its url has a record with the id
\* and the content p wrote
SaveLanded(p) ==
    /\ procs[p].url \in DOMAIN index
    /\ index[procs[p].url].url = procs[p].url
    /\ index[procs[p].url].id = procs[p].summary_id
    /\ procs[p].summary_id \in DOMAIN files
    /\ files[procs[p].summary_id] = procs[p].content

\* C18: when the saves of two processes for different urls have both
\* completed, however their steps interleaved, the index holds a record
\* for each url, each with its own id and the content saved for it.
C18_ConcurrentSavesBothLand ==
    (\A p \in Procs : procs[p].pc = "done") =>
        /\ \A p \in Procs : SaveLanded(p)
        /\ \A p, q \in Procs : p # q => procs[p].summary_id # procs[q].summary_id

\* the urls whose record had the id x when the call started
HadId(x) == {u \in DOMAIN before.index : before.index[u].id = x}

\* the call removed the record of u, index entry and content file, and
\* nothing else
RemovedOnly(u) ==
    /\ DOMAIN index = DOMAIN before.index \ {u}
    /\ \A v \in DOMAIN index : index[v] = before.index[v]
    /\ DOMAIN files = DOMAIN before.files \ {before.index[u].id}
    /\ \A i \in DOMAIN files : files[i] = before.files[i]

StoreUntouched == index = before.index /\ files = before.files

\* C19: delete_summary(x) with x the id of a stored record removes that
\* record and no other and returns True; with x a stored url (and no
\* record's id) it removes the record of that url and no other and returns
\* True; with x neither it returns False and leaves the store as it was.
C19_DeleteRemovesDesignated ==
    ret.op = "delete" =>
        /\ \A u \in HadId(ret.arg) : ret.value = TRUE /\ RemovedOnly(u)
        /\ (HadId(ret.arg) = {} /\ ret.arg \in DOMAIN before.index) =>
              (ret.value = TRUE /\ RemovedOnly(ret.arg))
        /\ (HadId(ret.arg) = {} /\ ret.arg \notin DOMAIN before.index) =>
              (ret.value = FALSE /\ StoreUntouched)

\* C20: list_summaries(limit) with the default sort returns records of the
\* current index, no record twice, newest timestamp first and none left
\* out newer than one returned; it returns limit records, or all of them
\* when limit is at least the number stored.
C20_ListNewestFirstUpToLimit ==
    ret.op = "list" =>
        LET l == ret.value
            n == Cardinality(DOMAIN index)
        IN /\ \A i \in 1..Len(l) : l[i].url \in DOMAIN index /\ index[l[i].url] = l[i]
           /\ \A i, j \in 1..Len(l) : l[i].url = l[j].url => i = j
           /\ \A i, j \in 1..Len(l) : i < j => l[i].timestamp_unix >= l[j].timestamp_unix
           /\ \A u \in DOMAIN index : \A i \in 1..Len(l) :
                 index[u].timestamp_unix > l[i].timestamp_unix =>
                     \E j \in 1..Len(l) : l[j].url = u
           /\ Len(l) <= ret.arg
           /\ Len(l) = (IF ret.arg >= n THEN n ELSE ret.arg)

C20_Witness ==
    /\ ret.op = "list"
    /\ ret.arg = 1
    /\ Cardinality(DOMAIN index) = 2
    /\ Len(ret.value) = 1
    /\ ret.value[1].timestamp_unix = 3
    /\ ret.value[1].id = "id1"

\* C21: the summarize command exits with a non-zero status when the run
\* ended for want of credentials or because the fetch of the url failed,
\* and with zero otherwise.
C21_ExitStatusTellsFailure ==
    cli.pc = "exited" =>
        (cli.status # 0 <=> cli.cause \in {"credentials", "fetch"})

\* what the loop of the current call has done: attempts, failures, sleeps
GenAttempts == Cardinality({i \in 1..Len(gen.log) : gen.log[i] # "sleep"})

\* C22: every call of generate, whatever max_retries the client was
\* constructed with, ends with a returned response or with a raised error:
\* a call that has ended without raising has handed back a response.
C22_EndsWithResponseOrError ==
    (gen.calls > 0 /\ gen.pc = "returned") => gen.value # None

\* the rest of the claim: at most max_retries attempts, a sleep between
\* two attempts and nowhere else, nothing after the first success, and the
\* error raised exactly after max_retries failures
GenerateRetryDiscipline ==
    /\ GenAttempts <= gen.max_retries
    /\ \A i \in 1..Len(gen.log) :
          /\ (gen.log[i] = "ok") => i = Len(gen.log)
          /\ (i < Len(gen.log) /\ gen.log[i] = "fail") => gen.log[i + 1] = "sleep"
          /\ (gen.log[i] = "sleep") => i > 1 /\ gen.log[i - 1] = "fail" /\ i < 2 * gen.max_retries
    /\ (gen.pc = "raised") =>
          /\ GenAttempts = gen.max_retries
          /\ \A i \in 1..Len(gen.log) : gen.log[i] # "ok"
    /\ (gen.pc = "returned" /\ gen.value # None) => gen.log[Len(gen.log)] = "ok"
\* C23: the record of a url is removed only by delete_summary; operations
\* on other urls never remove it.  So once a process has completed its save
\* of u, and while the other process, which saves another url only, is not
\* in the middle of rewriting the index file, the index holds a record for u.
C23_RecordOutlivesOtherSaves ==
    \A p \in Procs :
        (procs[p].pc = "done" /\ \A q \in Procs : procs[q].pc # "dump") =>
            procs[p].url \in DOMAIN index
\* C24: every summarizer call is the next one in chunk order: call number
\* k is made for chunk k, whether or not earlier calls raised; it adds
\* position k to chunk_summaries and leaves every other position and the
\* chunks as they were; the loop is left only when each chunk has had its
\* one call, and no call is made outside the loop.
C24_OneCallPerChunkInOrder ==
    [][/\ (pc = "SUMMARIZE_EACH") =>
            /\ Len(calls') = Len(calls) + 1
            /\ SubSeq(calls', 1, Len(calls)) = calls
            /\ calls'[Len(calls')].chunk = content_chunks[Len(calls')]
            /\ Len(chunk_summaries') = Len(calls')
            /\ SubSeq(chunk_summaries', 1, Len(chunk_summaries)) = chunk_summaries
            /\ content_chunks' = content_chunks
            /\ (pc' # "SUMMARIZE_EACH") => Len(calls') = Len(content_chunks)
       /\ (pc # "SUMMARIZE_EACH" /\ pc' # "idle") => calls' = calls
      ]_vars

\* the call for the first of two chunks raised and the second chunk was
\* summarized all the same
C24_Witness ==
    /\ pc = "INTEGRATE"
    /\ Len(content_chunks) = 2
    /\ Len(calls) = 2
    /\ calls[1].outcome.raised
    /\ ~calls[2].outcome.raised
    /\ chunk_summaries[1] = Placeholder(1)
    /\ chunk_summaries[2] = ToText(calls[2].outcome.value)
\* C25: a call of integrate_summaries during which the LLM backend failed
\* has not raised: it has returned a value to its caller.
C25_IntegratorNeverRaises ==
    (agent.pc = "ended" /\ agent.name = "integrator" /\ agent.chat.raised) =>
        ~agent.outcome.raised
\* the attempts of the current call of fetch
FetchAttempts == {i \in 1..Len(fet.log) : fet.log[i] # "sleep"}

\* C26: a call of fetch for an invalid url has raised without any attempt;
\* for a valid url there are at most max_retries attempts and none after a
\* successful one; when every attempt failed, fetch raised once all
\* max_retries attempts were made, and raised the error of the last attempt;
\* whenever fetch raised, fetch_webpage stored nothing and the pipeline
\* has its one fatal failure.
C26_FetchRetriesThenOneError ==
    fet.called =>
        /\ ~_is_valid_url(fet.url) =>
              (fet.log = <<>> /\ fet.outcome = Raised(<<"invalid">>))
        /\ Cardinality(FetchAttempts) <= fet.max_retries
        /\ \A i \in FetchAttempts : fet.log[i] = "ok" => i = Len(fet.log)
        /\ (fet.pc \in {"fetched", "done"} /\ fet.outcome.raised /\ FetchAttempts # {}) =>
              /\ Cardinality(FetchAttempts) = fet.max_retries
              /\ \A i \in FetchAttempts : fet.log[i] # "ok"
              /\ fet.outcome.value = <<fet.log[Len(fet.log) - 1]>>
        /\ (fet.pc = "done" /\ fet.outcome.raised) =>
              (fet.content = None /\ fet.fatal /\ fet.url \notin DOMAIN pages)

\* three attempts failed in three different ways and the pipeline failed
C26_Witness ==
    /\ fet.pc = "done"
    /\ fet.max_retries = 3
    /\ fet.log = <<"timeout", "sleep", "connection", "sleep", "http", "sleep">>
    /\ fet.outcome = Raised(<<"http">>)
    /\ fet.fatal
\* the elements a chunk was joined from
JoinedElements(chunk) == SplitBlank(chunk, <<>>)

\* C27: for a text above the budget no returned chunk is the empty string,
\* and no chunk that was joined from paragraphs or sentences has an empty or
\* whitespace-only element.
C27_NoEmptyElements ==
    (op = "split" /\ TokenLen(content) > CHUNK_SIZE) =>
        \A i \in 1..Len(chunks) :
            /\ chunks[i] # <<>>
            /\ ~hard[i] =>
                  \A j \in 1..Len(JoinedElements(chunks[i])) :
                      StripNonEmpty(JoinedElements(chunks[i])[j])
\* the priority the claim gives: the string itself, else content, else
\* message.content, else the key 'content', else the stringified value
FixedPriority(r) ==
    IF r.str # None THEN r.str[1]
    ELSE IF r.content # None THEN r.content[1]
    ELSE IF r.msg # None THEN r.msg[1]
    ELSE IF r.key # None THEN r.key[1]
    ELSE r.repr

\* C28: whatever the shape of a response, each call site that has
\* normalized it has produced a text, the one the fixed priority gives; so
\* any two call sites have produced the same text.
C28_OnePriorityAtEverySite ==
    /\ \A site \in Sites :
          norm.text[site] # None => norm.text[site] = Some(FixedPriority(norm.resp))
    /\ \A s1, s2 \in Sites :
          (norm.text[s1] # None /\ norm.text[s2] # None) => norm.text[s1] = norm.text[s2]

\* an object with both content and message.content has been normalized at
\* all three call sites
C28_Witness ==
    /\ norm.resp.str = None
    /\ norm.resp.content = Some(<<"c">>)
    /\ norm.resp.msg = Some(<<"m">>)
    /\ \A site \in Sites : norm.text[site] = Some(<<"c">>)
\* the characters of the three classes of the fallback
AsciiChars(text) == Cardinality({i \in 1..Len(text) : text[i] \notin {Wide, Accented}})
CjkChars(text) == Cardinality({i \in 1..Len(text) : text[i] = Wide})
OtherChars(text) == Cardinality({i \in 1..Len(text) : text[i] = Accented})

\* C29: every call of estimate_tokens returns a non-negative integer, the
\* same one each time for the same text; it is 0 for the empty string;
\* without a tokenizer it is ascii/4 + 2*cjk + other/3 rounded down, that
\* is the largest n with 12*n <= 3*ascii + 24*cjk + 4*other.
C29_EstimateIsTotalAndPure ==
    \A i \in 1..Len(est.values) :
        /\ est.values[i] \in Nat
        /\ est.values[i] = est.values[1]
        /\ est.text = <<>> => est.values[i] = 0
        /\ ~est.tiktoken =>
              LET twelfths == 3 * AsciiChars(est.text) + 24 * CjkChars(est.text)
                              + 4 * OtherChars(est.text)
              IN /\ 12 * est.values[i] <= twelfths
                 /\ twelfths < 12 * (est.values[i] + 1)

\* without a tokenizer, three ASCII characters, one ideograph and one other
\* character are estimated twice as 3: 0.75 + 2 + 0.33
C29_Witness ==
    /\ ~est.tiktoken
    /\ AsciiChars(est.text) = 3
    /\ CjkChars(est.text) = 1
    /\ OtherChars(est.text) = 1
    /\ est.values = <<3, 3>>
\* C30: a call of fetch_webpage(u) answered from the page file has made no
\* call of the network fetcher and returns exactly the text the fetcher
\* had returned and fetch_webpage had stored, so that a stored empty text
\* fails the run again; a call whose fetch returned has stored the text,
\* and one whose fetch raised has stored nothing, so that the next call for
\* u fetches anew.
C30_PageCacheReturnsStoredText ==
    fet.pc = "done" =>
        /\ ~fet.called =>
              /\ fet.log = <<>>
              /\ fet.content = Some(pages[fet.url])
              /\ fet.fatal <=> pages[fet.url] = <<>>
        /\ (fet.called /\ ~fet.outcome.raised) =>
              (fet.url \in DOMAIN pages /\ pages[fet.url] = fet.outcome.value)
        /\ (fet.called /\ fet.outcome.raised) => fet.url \notin DOMAIN pages
\* C31: between the calls of one caller, index and content files agree:
\* every url of the index has the content file its id names, every content
\* file is named by the id of some url of the index, and
\* get_summary_by_url(u) finds a record exactly when u is in the index.
C31_IndexAndFilesAgree ==
    /\ \A u \in DOMAIN index : index[u].id \in DOMAIN files
    /\ \A id \in DOMAIN files : \E u \in DOMAIN index : index[u].id = id
    /\ \A u \in URLs : (get_summary_by_url(u) # None) <=> u \in DOMAIN index
\* the text the chunker gets inside process_content
Cleaned == _clean_content(content)

\* C32: the cleaned text has no newline and no two adjacent whitespace
\* characters; when it is above the budget, the blank-line split gives the
\* one paragraph that is the whole text, and the chunks are those of the
\* sentence loop over that paragraph alone: accumulated sentences and
\* hard-split windows, with no paragraph flushed or accumulated.
C32_CleanedTextIsOneParagraph ==
    op = "process" =>
        /\ \A i \in 1..Len(Cleaned) : Cleaned[i] # NL
        /\ \A i \in 1..(Len(Cleaned) - 1) : ~(IsSpace(Cleaned[i]) /\ IsSpace(Cleaned[i + 1]))
        /\ TokenLen(Cleaned) > CHUNK_SIZE =>
              /\ Paragraphs(Cleaned) = <<Cleaned>>
              /\ chunks = FinalFlush(SentenceLoop(EmptyAcc, Sentences(Cleaned))).chunks

\* a page of two paragraphs, above the budget once cleaned, has come back
\* as two chunks
C32_Witness ==
    /\ op = "process"
    /\ \E i \in 1..(Len(content) - 1) : content[i] = NL /\ content[i + 1] = NL
    /\ TokenLen(Cleaned) > CHUNK_SIZE
    /\ Len(chunks) = 2
\* C33: a call of get_summary_by_url(u) that ran beside saves and deletes
\* of u has not raised, and what it returned is None or a record of one
\* saved version of u: the content is the one saved at the record's
\* timestamp, under the id the index now has or had for u.
C33_ReaderSeesOneVersion ==
    /\ ret.op # "get_by_url raised"
    /\ (ret.op = "get_by_url" /\ ret.value # None) =>
          ret.value[1].content = VersionText(ret.value[1].timestamp_unix)
\* the stages in trace are pairwise different
NoStageTwice == \A i, j \in 1..Len(trace) : trace[i] = trace[j] => i = j

\* C34: a run that has started reaches DONE or the error exit when every
\* call it makes comes back, no stage is entered twice, and once the loop
\* is over the summarizer has been called exactly len(content_chunks)
\* times.
C34_RunEnds ==
    /\ [](pc = "CACHE_CHECK" => <>(pc \in {"DONE", "FAILED"}))
    /\ []NoStageTwice
    /\ [](Len(calls) <= Len(content_chunks))
    /\ [](pc \in {"INTEGRATE", "PERSIST"} \/ (pc = "DONE" /\ ~cacheHit)
            => Len(calls) = Len(content_chunks))

\* a run is done whose loop made more than one iteration
C34_Witness ==
    /\ pc = "DONE"
    /\ ~cacheHit
    /\ Len(calls) > 1
    /\ Len(calls) = Len(content_chunks)
====
